---- MODULE Spec2Model ----
(***************************************************************************)
(* Model of the Figma-to-React generator scripts.                          *)
(*                                                                         *)
(* Three script variants are modelled side by side:                        *)
(*   "sonet"   src/figma-to-react-sonet.js (image harvester, annotations)  *)
(*   "scss"    src/unnamed/part_002        (stylesheet, test file)         *)
(*   "legacy"  src/figma-to-react.js       (first version)                 *)
(*                                                                         *)
(* Text is a sequence of tokens.  A token is a string holding either one   *)
(* character (" ", "\n", "a", ...) or one atomic word that holds no        *)
(* white space and no back-tick ("import", "FRAME", "12", ...).            *)
(***************************************************************************)
EXTENDS Integers, Sequences, FiniteSets, TLC

VARIABLES
    variant,    \* which script runs
    parent,     \* the design tree: parent[i] is the parent of node i, 0 for the root
    nodes,      \* the design tree: nodes[i] is the record of node i
    treePc,     \* "idle" | "ready" | "done": the tree walk's position
    summary,    \* result of extractNodeSummary(root): [threw, text]
    content,    \* the raw response text handed to cleanGeneratedCode
    cleanPc,    \* "idle" | "ready" | "done": the sanitizer's position
    cleaned,    \* the text cleanGeneratedCode returned
    found,      \* result of findImageNodes(root): [threw, ids]
    pc,             \* position of run()
    model,          \* the provider chosen at the first prompt
    keys,           \* the credentials present in the environment
    componentName,  \* the component name typed at the prompt
    exitCode,       \* None while the process lives, else Some(status)
    errorMsg,       \* the message of the error that ended the run
    netLog,         \* the external calls issued so far, in order
    dirs,           \* the directories on disk
    files,          \* the files on disk: records [path, content]
    harvested,      \* position of extractAndSaveImages
    imageNodes,     \* extractAndSaveImages: the candidate list
    entries,        \* extractAndSaveImages: Object.entries(imageUrls)
    hIdx,           \* extractAndSaveImages: index of the entry in the loop
    curName,        \* extractAndSaveImages: imageName of the current entry
    attempts,       \* what became of each entry processed so far
    imageImports,   \* extractAndSaveImages: the ImageImports collected
    contents        \* generateWithAI: the provider texts received so far

treeVars == <<variant, parent, nodes, treePc, summary, found>>
cleanVars == <<content, cleanPc, cleaned>>
runVars == <<pc, model, keys, componentName, exitCode, errorMsg, netLog, dirs, files,
             harvested, imageNodes, entries, hIdx, curName, attempts, imageImports,
             contents>>
vars == <<variant, parent, nodes, treePc, summary, found, content, cleanPc, cleaned,
          pc, model, keys, componentName, exitCode, errorMsg, netLog, dirs, files,
          harvested, imageNodes, entries, hIdx, curName, attempts, imageImports,
          contents>>

----------------------------------------------------------------------------
(* Bounds *)

MaxNodes == 3
MaxLines == 4

----------------------------------------------------------------------------
(* Optional values: a field that is absent (undefined) or present. *)

None == <<>>
Some(x) == <<x>>
Has(m) == m # <<>>
Get(m) == m[1]

----------------------------------------------------------------------------
(* Text helpers *)

NL == "\n"
SP == " "

RECURSIVE Repeat(_, _)
\* String.prototype.repeat
Repeat(s, n) == IF n <= 0 THEN <<>> ELSE s \o Repeat(s, n - 1)

RECURSIVE Flatten(_)
\* concatenation of a sequence of texts
Flatten(ss) == IF ss = <<>> THEN <<>> ELSE Head(ss) \o Flatten(Tail(ss))

RECURSIVE Split(_, _)
\* String.prototype.split(sep) for a one-token separator: the segments between
\* separators, a trailing separator giving a last empty segment
Split(t, sep) ==
    IF \A k \in 1..Len(t) : t[k] # sep
    THEN <<t>>
    ELSE LET k == CHOOSE i \in 1..Len(t) : t[i] = sep /\ \A j \in 1..(i - 1) : t[j] # sep
         IN <<SubSeq(t, 1, k - 1)>> \o Split(SubSeq(t, k + 1, Len(t)), sep)

RECURSIVE Join(_, _)
\* Array.prototype.join(sep)
Join(ls, sep) ==
    IF ls = <<>> THEN <<>>
    ELSE IF Len(ls) = 1 THEN ls[1]
    ELSE ls[1] \o <<sep>> \o Join(Tail(ls), sep)

\* the number of spaces a text starts with
LeadingSpaces(t) ==
    IF \A k \in 1..Len(t) : t[k] = SP THEN Len(t)
    ELSE (CHOOSE i \in 1..Len(t) : t[i] # SP /\ \A j \in 1..(i - 1) : t[j] = SP) - 1

\* the newline-terminated lines of a text
TerminatedLines(t) == LET segs == Split(t, NL) IN SubSeq(segs, 1, Len(segs) - 1)

\* decimal rendering of a number given in tenths: 5 -> 0.5, 10 -> 1
RenderTenths(k) ==
    IF k % 10 = 0 THEN <<ToString(k \div 10)>>
    ELSE <<ToString(k \div 10), ".", ToString(k % 10)>>

\* Math.round(c * 255) for a channel c given in tenths
Round255(c) == (c * 255 + 5) \div 10

----------------------------------------------------------------------------
(* DesignNode: a node of the fetched design tree.  Every optional field is *)
(* None when the fetched JSON does not hold it.  Lengths are integers,     *)
(* opacity and colour channels are given in tenths (5 is 0.5).             *)

NoNode ==
    [ isNull |-> TRUE, name |-> None, type |-> None, characters |-> None,
      fills |-> None, style |-> None, absoluteBoundingBox |-> None,
      constraints |-> None, paddingLeft |-> None, paddingRight |-> None,
      paddingTop |-> None, paddingBottom |-> None, cornerRadius |-> None,
      layoutMode |-> None, itemSpacing |-> None,
      primaryAxisAlignItems |-> None, counterAxisAlignItems |-> None ]

BareNode == [NoNode EXCEPT !.isNull = FALSE]

NoStyle ==
    [ fontFamily |-> None, fontSize |-> None, fontWeight |-> None,
      textAlignHorizontal |-> None, lineHeightPx |-> None, letterSpacing |-> None,
      backgroundColor |-> None, fill |-> None, lineHeight |-> None, textAlign |-> None,
      width |-> None, height |-> None, padding |-> None, borderRadius |-> None ]

SolidFill(r, g, b, a) ==
    [ type |-> "SOLID", color |-> Some([r |-> r, g |-> g, b |-> b]), opacity |-> a ]

ImageFill == [ type |-> "IMAGE", color |-> None, opacity |-> None ]

\* JavaScript truthiness of an optional number, word or text
TruthyNum(m) == Has(m) /\ Get(m) # 0
TruthyWord(m) == Has(m) /\ Get(m) # ""
TruthyText(m) == Has(m) /\ Get(m) # <<>>

\* `${x}` for an optional number or word: the text "undefined" when absent
ShowNum(m) == IF Has(m) THEN ToString(Get(m)) ELSE "undefined"
ShowWord(m) == IF Has(m) THEN Get(m) ELSE "undefined"

\* x || 0 for an optional number
OrZero(m) == IF TruthyNum(m) THEN Get(m) ELSE 0

----------------------------------------------------------------------------
(* The tree: node ids are 1..Len(nodes), node 1 is the root (the main      *)
(* frame), the children of a node are listed in increasing id order.       *)

NodeIds == 1..Len(nodes)

RECURSIVE IdsFrom(_, _)
\* the children array of node i, from id k upwards
IdsFrom(i, k) ==
    IF k > Len(nodes) THEN <<>>
    ELSE (IF parent[k] = i THEN <<k>> ELSE <<>>) \o IdsFrom(i, k + 1)

Children(i) == IdsFrom(i, 1)

RECURSIVE Depth(_)
Depth(i) == IF parent[i] = 0 THEN 0 ELSE 1 + Depth(parent[i])

RECURSIVE PreOrder(_)
RECURSIVE PreOrderAll(_)
\* the nodes below and including i, parents before children, siblings in order
PreOrder(i) == <<i>> \o PreOrderAll(Children(i))
PreOrderAll(kids) ==
    IF kids = <<>> THEN <<>> ELSE PreOrder(Head(kids)) \o PreOrderAll(Tail(kids))

\* parent vectors of the trees of n nodes
Shapes(n) ==
    { p \in [1..n -> 0..n] : p[1] = 0 /\ \A i \in 2..n : p[i] \in 1..(i - 1) }

----------------------------------------------------------------------------
(* Style Extractor, annotation shape (extractStylesForAI)                  *)

IndentOne(level) == Repeat(<<SP>>, level)

\* "  ".repeat(level)
Indent(level) == Repeat(<<SP, SP>>, level)

Comment(level, body) == Indent(level) \o <<"//", SP>> \o body \o <<NL>>

\* the rgba(...) text of a solid fill: const opacity = fill.opacity || 1
Rgba(fill) ==
    LET color == Get(fill.color)
        opacity == IF TruthyNum(fill.opacity) THEN Get(fill.opacity) ELSE 10
    IN <<"rgba(", ToString(Round255(color.r)), ",", SP,
         ToString(Round255(color.g)), ",", SP,
         ToString(Round255(color.b)), ",", SP>> \o RenderTenths(opacity) \o <<")">>

extractStylesForAI(i, level) ==
    LET node == nodes[i] IN
    IF node.isNull THEN <<>>
    ELSE
      (IF TruthyText(node.characters)
       THEN Comment(level, <<"TEXT:", SP, "\"">> \o Get(node.characters) \o <<"\"">>)
       ELSE <<>>)
      \o
      (IF Has(node.fills) /\ Len(Get(node.fills)) > 0
          /\ Get(node.fills)[1].type = "SOLID" /\ Has(Get(node.fills)[1].color)
       THEN Comment(level, <<"Background:", SP>> \o Rgba(Get(node.fills)[1]))
       ELSE <<>>)
      \o
      (IF Has(node.style)
       THEN LET st == Get(node.style) IN
            (IF TruthyWord(st.fontFamily)
             THEN Comment(level, <<"Font:", SP, Get(st.fontFamily)>>) ELSE <<>>)
            \o
            (IF TruthyNum(st.fontSize)
             THEN Comment(level, <<"Font", SP, "Size:", SP, ToString(Get(st.fontSize)), "px">>)
             ELSE <<>>)
            \o
            (IF TruthyNum(st.fontWeight)
             THEN Comment(level, <<"Font", SP, "Weight:", SP, ToString(Get(st.fontWeight))>>)
             ELSE <<>>)
            \o
            (IF TruthyWord(st.textAlignHorizontal)
             THEN Comment(level, <<"Text", SP, "Align:", SP, Get(st.textAlignHorizontal)>>)
             ELSE <<>>)
       ELSE <<>>)
      \o
      (IF Has(node.absoluteBoundingBox)
       THEN LET box == Get(node.absoluteBoundingBox) IN
            Comment(level, <<"Position:", SP, "x=", ShowNum(box.x), "px,", SP,
                             "y=", ShowNum(box.y), "px">>)
            \o
            Comment(level, <<"Dimensions:", SP, ShowNum(box.width), "px", SP, "x", SP,
                             ShowNum(box.height), "px">>)
       ELSE <<>>)
      \o
      (IF Has(node.constraints)
       THEN Comment(level, <<"Constraints:", SP, Get(node.constraints)>>)
       ELSE <<>>)
      \o
      (IF TruthyNum(node.paddingLeft) \/ TruthyNum(node.paddingRight)
          \/ TruthyNum(node.paddingTop) \/ TruthyNum(node.paddingBottom)
       THEN Comment(level, <<"Padding:", SP,
                ToString(OrZero(node.paddingTop)), "px", SP,
                ToString(OrZero(node.paddingRight)), "px", SP,
                ToString(OrZero(node.paddingBottom)), "px", SP,
                ToString(OrZero(node.paddingLeft)), "px">>)
       ELSE <<>>)
      \o
      (IF Has(node.cornerRadius)
       THEN Comment(level, <<"Border", SP, "Radius:", SP, ToString(Get(node.cornerRadius)), "px">>)
       ELSE <<>>)
      \o
      (IF TruthyWord(node.layoutMode)
       THEN Comment(level, <<"Layout", SP, "Mode:", SP, Get(node.layoutMode)>>)
            \o
            (IF TruthyNum(node.itemSpacing)
             THEN Comment(level, <<"Item", SP, "Spacing:", SP, ToString(Get(node.itemSpacing)), "px">>)
             ELSE <<>>)
            \o
            (IF Has(node.paddingLeft)
             THEN Comment(level, <<"Padding:", SP,
                      ShowNum(node.paddingTop), "px", SP, ShowNum(node.paddingRight), "px", SP,
                      ShowNum(node.paddingBottom), "px", SP, ShowNum(node.paddingLeft), "px">>)
             ELSE <<>>)
            \o
            (IF TruthyWord(node.primaryAxisAlignItems)
             THEN Comment(level, <<"Main", SP, "Axis:", SP, Get(node.primaryAxisAlignItems)>>)
             ELSE <<>>)
            \o
            (IF TruthyWord(node.counterAxisAlignItems)
             THEN Comment(level, <<"Cross", SP, "Axis:", SP, Get(node.counterAxisAlignItems)>>)
             ELSE <<>>)
       ELSE <<>>)

----------------------------------------------------------------------------
(* Tree Summarizer (extractNodeSummary)                                    *)

\* node.name || 'Unnamed' and node.type || 'Unknown' in the guarded variants,
\* `${node.name}` and `${node.type}` in the first one
ShownName(v, node) ==
    IF v = "legacy"
    THEN (IF Has(node.name) THEN Get(node.name) ELSE <<"undefined">>)
    ELSE (IF TruthyText(node.name) THEN Get(node.name) ELSE <<"Unnamed">>)

ShownType(v, node) ==
    IF v = "legacy" THEN ShowWord(node.type)
    ELSE (IF TruthyWord(node.type) THEN Get(node.type) ELSE "Unknown")

NodeLine(v, i, level) ==
    Indent(level) \o <<"-", SP>> \o ShownName(v, nodes[i]) \o <<SP, "(">>
        \o <<ShownType(v, nodes[i])>> \o <<")", NL>>

Threw == [threw |-> TRUE, text |-> <<>>]
Returned(t) == [threw |-> FALSE, text |-> t]

RECURSIVE extractNodeSummary(_, _, _)
RECURSIVE SummarizeChildren(_, _, _, _)

\* node.children.forEach(child => summary += extractNodeSummary(child, level + 1)),
\* started from the text `acc`; an exception of a child ends the walk
SummarizeChildren(v, kids, level, acc) ==
    IF kids = <<>> THEN Returned(acc)
    ELSE LET r == extractNodeSummary(v, Head(kids), level + 1) IN
         IF r.threw THEN Threw
         ELSE SummarizeChildren(v, Tail(kids), level, acc \o r.text)

extractNodeSummary(v, i, level) ==
    IF nodes[i].isNull
    THEN (IF v = "legacy" THEN Threw ELSE Returned(<<>>))
    ELSE SummarizeChildren(v, Children(i), level,
             NodeLine(v, i, level)
             \o (IF v = "sonet" THEN extractStylesForAI(i, level + 1) ELSE <<>>))

----------------------------------------------------------------------------
(* Specification SpecTree: the Tree Summarizer applied to every tree of at *)
(* most MaxNodes nodes whose nodes are drawn from SummaryNodes.            *)

TextNode ==
    [BareNode EXCEPT !.name = Some(<<"T">>), !.type = Some("TEXT"),
                     !.characters = Some(<<"h", "i">>),
                     !.style = Some([NoStyle EXCEPT !.fontFamily = Some("Inter"),
                                                    !.fontSize = Some(12)])]

SummaryNodes ==
    { [BareNode EXCEPT !.name = Some(<<"A">>), !.type = Some("FRAME")],
      TextNode,
      [BareNode EXCEPT !.name = Some(<<"B", SP, "x">>), !.type = Some("RECTANGLE"),
                       !.fills = Some(<<SolidFill(10, 0, 0, Some(5))>>),
                       !.cornerRadius = Some(0)],
      [BareNode EXCEPT !.type = Some("GROUP")],
      [BareNode EXCEPT !.name = Some(<<"N">>)],
      [BareNode EXCEPT !.name = Some(<<"a", NL, "b">>), !.type = Some("FRAME")],
      [TextNode EXCEPT !.characters = Some(<<"h", NL, "i">>)],
      NoNode }

Variants == {"sonet", "scss", "legacy"}

\* the parts of the state a specification does not use
TreeIdle ==
    /\ variant = "sonet" /\ parent = <<0>> /\ nodes = <<BareNode>>
    /\ treePc = "idle" /\ summary = [threw |-> FALSE, text |-> <<>>]
    /\ found = [threw |-> FALSE, ids |-> <<>>]

CleanIdle == content = <<>> /\ cleanPc = "idle" /\ cleaned = <<>>

RunIdle ==
    /\ pc = "idle" /\ model = "OpenAI" /\ keys = {} /\ componentName = <<>>
    /\ exitCode = <<>> /\ errorMsg = <<>> /\ netLog = <<>> /\ dirs = {} /\ files = {}
    /\ harvested = "none" /\ imageNodes = <<>> /\ entries = <<>> /\ hIdx = 0
    /\ curName = <<>> /\ attempts = <<>> /\ imageImports = <<>> /\ contents = <<>>

NoResult == [threw |-> FALSE, text |-> <<>>]

\* a null entry is only ever met as a child: run() rejects a missing main frame
WellFormedTree(p, ns) ==
    /\ ~ns[1].isNull
    /\ \A i \in 2..Len(ns) : ~ns[p[i]].isNull

TreeInit ==
    /\ variant \in Variants
    /\ \E n \in 1..MaxNodes :
          /\ parent \in Shapes(n)
          /\ nodes \in [1..n -> SummaryNodes]
    /\ WellFormedTree(parent, nodes)
    /\ treePc = "ready"
    /\ summary = NoResult
    /\ found = [threw |-> FALSE, ids |-> <<>>]
    /\ CleanIdle
    /\ RunIdle

\* const structureText = extractNodeSummary(mainFrame)
Summarize ==
    /\ treePc = "ready"
    /\ summary' = extractNodeSummary(variant, 1, 0)
    /\ treePc' = "done"
    /\ UNCHANGED <<variant, parent, nodes, found>>
    /\ UNCHANGED cleanVars
    /\ UNCHANGED runVars

TreeNext == Summarize

SpecTree == TreeInit /\ [][TreeNext]_vars

----------------------------------------------------------------------------
(* Claims about the Tree Summarizer                                        *)

\* the tree holds DesignNodes only (no null child)
AllDesignNodes == \A i \in NodeIds : ~nodes[i].isNull

\* no display name and no text content holds a line break
SingleLineTexts ==
    \A i \in NodeIds :
        /\ Has(nodes[i].name) => \A k \in 1..Len(Get(nodes[i].name)) : Get(nodes[i].name)[k] # NL
        /\ Has(nodes[i].characters) =>
               \A k \in 1..Len(Get(nodes[i].characters)) : Get(nodes[i].characters)[k] # NL

StripIndent(line) == SubSeq(line, LeadingSpaces(line) + 1, Len(line))

\* a line "- <name> (<type>)" after its indentation
IsNodeLine(line) ==
    LET b == StripIndent(line) IN Len(b) >= 2 /\ b[1] = "-" /\ b[2] = SP

\* a line "// ..." after its indentation
IsAnnotationLine(line) ==
    LET b == StripIndent(line) IN Len(b) >= 2 /\ b[1] = "//" /\ b[2] = SP

SummaryLines == TerminatedLines(summary.text)

\* C1 as stated: one line per node, the line of a node at depth d starting with
\* exactly 2*d spaces (for trees of DesignNodes whose names hold no line break)
C1_OneLinePerNode ==
    (treePc = "done" /\ AllDesignNodes /\ SingleLineTexts) =>
        /\ ~summary.threw
        /\ Len(SummaryLines) = Len(PreOrder(1))
        /\ \A k \in 1..Len(SummaryLines) :
               k <= Len(PreOrder(1)) =>
                   LeadingSpaces(SummaryLines[k]) = 2 * Depth(PreOrder(1)[k])

\* the line of the closest node line at or before line k
RECURSIVE OwnerLine(_, _)
OwnerLine(ls, k) == IF k = 0 \/ IsNodeLine(ls[k]) THEN k ELSE OwnerLine(ls, k - 1)

\* C1 amended: exactly one node line "- name (type)" per node, in pre-order,
\* indented by 2*d spaces; every other line is a style annotation "// ..." that
\* follows the line of its node, indented by 2*(d+1) spaces; only the variant
\* that interleaves annotations ("sonet") outputs such lines, so the line count
\* equals the node count in the other variants
C1_NodeLinesAndAnnotations ==
    (treePc = "done" /\ AllDesignNodes /\ SingleLineTexts) =>
        LET ls == SummaryLines
            nodeLines == SelectSeq(ls, IsNodeLine)
            po == PreOrder(1)
        IN /\ ~summary.threw
           /\ Len(nodeLines) = Len(po)
           /\ \A k \in 1..Len(nodeLines) :
                  k <= Len(po) => LeadingSpaces(nodeLines[k]) = 2 * Depth(po[k])
           /\ \A k \in 1..Len(ls) :
                  IsNodeLine(ls[k]) \/
                     /\ IsAnnotationLine(ls[k])
                     /\ OwnerLine(ls, k) > 0
                     /\ LeadingSpaces(ls[k]) = LeadingSpaces(ls[OwnerLine(ls, k)]) + 2
           /\ variant # "sonet" => Len(ls) = Len(po)
           /\ Len(ls) = Len(po) + Len(Split(Flatten([k \in 1..Len(po) |->
                                     IF variant = "sonet"
                                     THEN extractStylesForAI(po[k], 0) ELSE <<>>]), NL)) - 1

\* a summary of a three-level tree that holds annotation lines has been produced
C1_Witness ==
    /\ treePc = "done" /\ AllDesignNodes /\ SingleLineTexts
    /\ variant = "sonet"
    /\ \E i \in NodeIds : Depth(i) = 2
    /\ Len(SummaryLines) > Len(PreOrder(1))

----------------------------------------------------------------------------
(* Output Sanitizer (cleanGeneratedCode)                                   *)

\* the back-tick character (the module text cannot hold it in a string)
BT == "BACKTICK"

\* the words the code-start pattern looks for at the start of a line
CodeStartWords == {"import", "export", "interface", "type", "const", "function", "class"}

\* the words the trailing-prose pattern looks for at the start of a line
LeadInWords == {"This", "Required", "Note:", "The"}

\* tokens made of the letters a-z only
LowerWords == CodeStartWords \cup {"x"}

IsSpace(c) == c = SP \/ c = NL

\* a trim that takes one white-space character off each end
TrimOnce(t) ==
    LET a == IF t # <<>> /\ IsSpace(Head(t)) THEN Tail(t) ELSE t IN
    IF a # <<>> /\ IsSpace(a[Len(a)]) THEN SubSeq(a, 1, Len(a) - 1) ELSE a

RECURSIVE TrimStart(_)
TrimStart(t) == IF t # <<>> /\ IsSpace(Head(t)) THEN TrimStart(Tail(t)) ELSE t

RECURSIVE TrimEnd(_)
TrimEnd(t) ==
    IF t # <<>> /\ IsSpace(t[Len(t)]) THEN TrimEnd(SubSeq(t, 1, Len(t) - 1)) ELSE t

\* String.prototype.trim
Trim(t) == TrimEnd(TrimStart(t))

StartsWithFence(t) == Len(t) >= 3 /\ t[1] = BT /\ t[2] = BT /\ t[3] = BT

RECURSIVE DropLower(_)
\* [a-z]* : the longest run of lower-case letters
DropLower(t) == IF t # <<>> /\ Head(t) \in LowerWords THEN DropLower(Tail(t)) ELSE t

\* \n? : one line break if there is one
DropOneNL(t) == IF t # <<>> /\ Head(t) = NL THEN Tail(t) ELSE t

RECURSIVE StripBareFences(_)
\* the second replace: a fence (three back-ticks) and one line break after it
StripBareFences(t) ==
    IF t = <<>> THEN <<>>
    ELSE IF StartsWithFence(t)
         THEN StripBareFences(DropOneNL(SubSeq(t, 4, Len(t))))
         ELSE <<Head(t)>> \o StripBareFences(Tail(t))

\* the first replace without its [a-z]* part: the language tag stays
StripFencesKeepingTag(t) == StripBareFences(t)

RECURSIVE StripTaggedFences(_)
\* the first replace: a fence, the lower-case letters and one line break after it
StripTaggedFences(t) ==
    IF t = <<>> THEN <<>>
    ELSE IF StartsWithFence(t)
         THEN StripTaggedFences(DropOneNL(DropLower(SubSeq(t, 4, Len(t)))))
         ELSE <<Head(t)>> \o StripTaggedFences(Tail(t))

\* both replacements of the fence markers
StripFences(t) == StripBareFences(StripTaggedFences(t))

\* the pattern /(^|\n)(import|export|...)/m matches at the 0-based index i
CodeStartAt(t, i) ==
    \/ /\ i = 0 \/ t[i] = NL
       /\ i + 1 <= Len(t) /\ t[i + 1] \in CodeStartWords
    \/ /\ i + 2 <= Len(t)
       /\ t[i + 1] = NL /\ t[i + 2] \in CodeStartWords

\* cleaned.search(...): the index of the first match, -1 when there is none
CodeStart(t) ==
    IF \E i \in 0..(Len(t) - 1) : CodeStartAt(t, i)
    THEN CHOOSE i \in 0..(Len(t) - 1) :
             CodeStartAt(t, i) /\ \A j \in 0..(i - 1) : ~CodeStartAt(t, j)
    ELSE -1

KeepAll(t) == t

\* if (codeStart > 0) cleaned = cleaned.substring(codeStart).trim()
DiscardBeforeCode(t) ==
    IF CodeStart(t) > 0 THEN Trim(SubSeq(t, CodeStart(t) + 1, Len(t))) ELSE t

\* the test of the backwards loop: a line that ends the trailing prose
IsMeaningful(rawLine) ==
    LET line == Trim(rawLine) IN
    /\ line # <<>>
    /\ line[1] # "//"
    /\ line[1] \notin LeadInWords

\* the 0-based index the backwards loop stops at, -1 when it finds no line
LastCodeLine(lines) ==
    IF \E i \in 1..Len(lines) : IsMeaningful(lines[i])
    THEN (CHOOSE i \in 1..Len(lines) :
              IsMeaningful(lines[i]) /\ \A j \in (i + 1)..Len(lines) : ~IsMeaningful(lines[j])) - 1
    ELSE -1

\* the cut with the slice one line short
CutOneLineShort(t) ==
    LET lines == Split(t, NL) IN
    IF LastCodeLine(lines) >= 0
    THEN Join(SubSeq(lines, 1, LastCodeLine(lines)), NL)
    ELSE t

\* if (lastCodeLine >= 0) cleaned = lines.slice(0, lastCodeLine + 1).join(NL)
CutTrailingProse(t) ==
    LET lines == Split(t, NL) IN
    IF LastCodeLine(lines) >= 0
    THEN Join(SubSeq(lines, 1, LastCodeLine(lines) + 1), NL)
    ELSE t

cleanGeneratedCode(t) == Trim(CutTrailingProse(DiscardBeforeCode(StripFences(t))))

----------------------------------------------------------------------------
(* Specification SpecClean: the sanitizer applied to every response of at  *)
(* most MaxLines lines drawn from ResponseLines.                           *)

ResponseLines ==
    { <<BT, BT, BT>>,               \* a bare fence
      <<BT, BT, BT, "x">>,          \* a fence with a lower-case language tag
      <<BT, BT, BT, "T">>,          \* a fence with a tag that is not lower-case
      <<BT, BT, BT, BT>>,           \* four back-ticks
      <<"import">>,                 \* a line that begins a code construct
      <<"}">>,                      \* another code line
      <<SP, "}">>,                  \* an indented code line
      <<"//", "x">>,                \* a line comment
      <<"This">>,                   \* a line that starts with a lead-in word
      <<>> }                        \* an empty line

RECURSIVE SeqsUpTo(_, _)
\* the sequences of at most n elements of S
SeqsUpTo(S, n) ==
    IF n = 0 THEN {<<>>}
    ELSE SeqsUpTo(S, n - 1) \cup { <<x>> \o q : x \in S, q \in { r \in SeqsUpTo(S, n - 1) : Len(r) = n - 1 } }

CleanInit ==
    /\ \E ls \in SeqsUpTo(ResponseLines, MaxLines) : content = Join(ls, NL)
    /\ cleanPc = "ready"
    /\ cleaned = <<>>
    /\ TreeIdle
    /\ RunIdle

\* const cleanedContent = cleanGeneratedCode(content)
Clean ==
    /\ cleanPc = "ready"
    /\ cleaned' = cleanGeneratedCode(content)
    /\ cleanPc' = "done"
    /\ UNCHANGED content
    /\ UNCHANGED treeVars
    /\ UNCHANGED runVars

CleanNext == Clean

SpecClean == CleanInit /\ [][CleanNext]_vars

----------------------------------------------------------------------------
(* Claims about the Output Sanitizer                                       *)

IsPrefix(a, b) == Len(a) <= Len(b) /\ SubSeq(b, 1, Len(a)) = a

\* the lines of the raw response
RawLines == Split(content, NL)

\* the lines of the response once its fence markers are removed (step 1)
UnfencedLines == Split(StripFences(content), NL)

HasBackTick(t) == \E k \in 1..Len(t) : t[k] = BT

\* a run of three back-ticks somewhere in the text
HasFenceMarker(t) == \E k \in 1..Len(t) : StartsWithFence(SubSeq(t, k, Len(t)))

\* an opening fence line: three back-ticks, then nothing or one language tag
IsOpeningFence(line) ==
    /\ StartsWithFence(line)
    /\ Len(line) <= 4
    /\ Len(line) = 4 => line[4] # BT

HasLowerCaseTag(line) == Len(line) = 4 => line[4] \in LowerWords

\* one fenced block: opening fence, code lines that hold no back-tick, closing fence
IsFencedBlock(ls) ==
    /\ Len(ls) >= 3
    /\ IsOpeningFence(ls[1])
    /\ ls[Len(ls)] = <<BT, BT, BT>>
    /\ \A k \in 2..(Len(ls) - 1) : ~HasBackTick(ls[k])

BlockLines(ls) == SubSeq(ls, 2, Len(ls) - 1)

\* the first line is not blank and not indented, the last line is not blank
\* (no line of the model ends in white space)
PlainEnds(ls) ==
    /\ ls[1] # <<>> /\ ~IsSpace(ls[1][1])
    /\ Trim(ls[Len(ls)]) # <<>>

BeginsCode(line) == line # <<>> /\ line[1] \in CodeStartWords

\* the index of the first line that begins a code construct, 0 when there is none
FirstCodeLine(ls) ==
    IF \E k \in 1..Len(ls) : BeginsCode(ls[k])
    THEN CHOOSE k \in 1..Len(ls) : BeginsCode(ls[k]) /\ \A j \in 1..(k - 1) : ~BeginsCode(ls[j])
    ELSE 0

\* the index of the last line that is not empty, not a comment and starts with no
\* lead-in word, 0 when there is none
LastKeptLine(ls) == LastCodeLine(ls) + 1

\* C2 as stated: the output holds no fence marker, and one fenced block (with a
\* lower-case tag or none, its first code line not blank and not indented, its
\* last code line not blank) yields exactly its code lines joined by line breaks
C2_FencedBlockYieldsCodeLines ==
    cleanPc = "done" =>
        /\ ~HasFenceMarker(cleaned)
        /\ (IsFencedBlock(RawLines) /\ HasLowerCaseTag(RawLines[1])
              /\ PlainEnds(BlockLines(RawLines)))
           => cleaned = Join(BlockLines(RawLines), NL)

\* C2 amended: as C2, for a block whose last code line is neither a comment nor
\* starts with a lead-in word, and in which the first line that begins a code
\* construct, when there is one, is the first code line
C2_FencedBlockOfPlainCode ==
    cleanPc = "done" =>
        /\ ~HasFenceMarker(cleaned)
        /\ (IsFencedBlock(RawLines) /\ HasLowerCaseTag(RawLines[1])
              /\ PlainEnds(BlockLines(RawLines))
              /\ IsMeaningful(RawLines[Len(RawLines) - 1])
              /\ FirstCodeLine(BlockLines(RawLines)) <= 1)
           => cleaned = Join(BlockLines(RawLines), NL)

\* a tagged fenced block of two code lines has been sanitized to its code lines
C2_Witness ==
    /\ cleanPc = "done"
    /\ IsFencedBlock(RawLines) /\ Len(RawLines) = 4 /\ Len(RawLines[1]) = 4
    /\ HasLowerCaseTag(RawLines[1])
    /\ BeginsCode(RawLines[2])
    /\ cleaned = Join(BlockLines(RawLines), NL)
    /\ cleaned # <<>>

\* C3 as stated: when prose trails the last code line of a response (a response
\* without fences whose first line is not blank and not indented), the output is
\* the response up to its last line that is not empty, not a comment and starts
\* with no lead-in word, every line of it unchanged
C3_TrailingProseOnlyRemoved ==
    (cleanPc = "done" /\ ~HasBackTick(content) /\ PlainEnds(RawLines)
        /\ LastKeptLine(RawLines) > 0 /\ LastKeptLine(RawLines) < Len(RawLines))
    => cleaned = Join(SubSeq(RawLines, 1, LastKeptLine(RawLines)), NL)

\* C3 amended: with j the first line that begins a code construct (the first
\* line when there is none) and k the last line that is not empty, not a comment
\* and starts with no lead-in word, the output is the lines j..k of the
\* fence-free response, unchanged but for the white space at both ends of the
\* result; when no line qualifies as k no trailing line is removed
C3_KeptLines ==
    cleanPc = "done" =>
        LET ls == UnfencedLines
            j == IF FirstCodeLine(ls) = 0 THEN 1 ELSE FirstCodeLine(ls)
            k == IF LastKeptLine(ls) = 0 THEN Len(ls) ELSE LastKeptLine(ls)
        IN /\ j <= k
           /\ cleaned = Trim(Join(SubSeq(ls, j, k), NL))

\* trailing prose has been cut from a response of two code lines
C3_Witness ==
    /\ cleanPc = "done" /\ ~HasBackTick(content) /\ PlainEnds(RawLines)
    /\ Len(RawLines) = 4 /\ LastKeptLine(RawLines) = 2
    /\ RawLines[4] # <<>>
    /\ cleaned = Join(SubSeq(RawLines, 1, 2), NL)

\* C4 as stated: the output starts at the first line that begins a code
\* construct, and at the very start of the (fence-free) content when no line does
C4_NothingElseDiscarded ==
    cleanPc = "done" =>
        LET ls == UnfencedLines
            j == FirstCodeLine(ls)
        IN IF j > 0
           THEN cleaned # <<>> /\ IsPrefix(cleaned, Join(SubSeq(ls, j, Len(ls)), NL))
           ELSE IsPrefix(cleaned, StripFences(content))

\* C4 amended: as C4, but when no line begins a code construct the white space
\* that starts the content is discarded
C4_OnlyLeadingSpaceDiscarded ==
    cleanPc = "done" =>
        LET ls == UnfencedLines
            j == FirstCodeLine(ls)
        IN IF j > 0
           THEN cleaned # <<>> /\ IsPrefix(cleaned, Join(SubSeq(ls, j, Len(ls)), NL))
           ELSE IsPrefix(cleaned, TrimStart(StripFences(content)))

\* prose before the first code line has been discarded
C4_Witness ==
    /\ cleanPc = "done" /\ ~HasBackTick(content)
    /\ FirstCodeLine(RawLines) = 3
    /\ RawLines[1] # <<>>
    /\ IsPrefix(cleaned, Join(SubSeq(RawLines, 3, Len(RawLines)), NL))
    /\ Len(cleaned) < Len(content)

----------------------------------------------------------------------------
(* Characters                                                              *)

UpperCase == <<"A", "B", "C", "D", "E", "F", "G", "H", "I", "J", "K", "L", "M",
               "N", "O", "P", "Q", "R", "S", "T", "U", "V", "W", "X", "Y", "Z">>
LowerCase == <<"a", "b", "c", "d", "e", "f", "g", "h", "i", "j", "k", "l", "m",
               "n", "o", "p", "q", "r", "s", "t", "u", "v", "w", "x", "y", "z">>
Digits == {"0", "1", "2", "3", "4", "5", "6", "7", "8", "9"}

IsLetter(c) == \E k \in 1..26 : UpperCase[k] = c \/ LowerCase[k] = c

LowerOf(c) ==
    IF \E k \in 1..26 : UpperCase[k] = c
    THEN LowerCase[CHOOSE k \in 1..26 : UpperCase[k] = c]
    ELSE c

\* String.prototype.toLowerCase
ToLowerCase(t) == [k \in 1..Len(t) |-> LowerOf(t[k])]

\* String.prototype.includes
Includes(t, w) == \E k \in 1..(Len(t) - Len(w) + 1) : SubSeq(t, k, k + Len(w) - 1) = w

----------------------------------------------------------------------------
(* Image Harvester: the candidate search (findImageNodes)                  *)

KwImage == <<"i", "m", "a", "g", "e">>
KwImg == <<"i", "m", "g">>
KwPhoto == <<"p", "h", "o", "t", "o">>
KwPicture == <<"p", "i", "c", "t", "u", "r", "e">>
KwIcon == <<"i", "c", "o", "n">>
KwLogo == <<"l", "o", "g", "o">>

\* one keyword set for every node type
SixKeywords == {KwImage, KwImg, KwPhoto, KwPicture, KwIcon, KwLogo}

\* the keywords looked for in the name of a RECTANGLE or ELLIPSE
ShapeKeywords == {KwImage, KwImg, KwPhoto, KwPicture, KwIcon, KwLogo}

\* the keywords looked for in the name of an INSTANCE or COMPONENT
InstanceKeywords == {KwImage, KwIcon, KwLogo}

\* node.fills.some(fill => fill.type === 'IMAGE')
HasImageFill(node) ==
    Has(node.fills) /\ \E k \in 1..Len(Get(node.fills)) : Get(node.fills)[k].type = "IMAGE"

TypeIn(node, types) == Has(node.type) /\ Get(node.type) \in types

\* node.name.toLowerCase() raises a TypeError when the node has no name
NameCheckThrows(node) ==
    TypeIn(node, {"RECTANGLE", "ELLIPSE", "INSTANCE", "COMPONENT"}) /\ ~Has(node.name)

\* the entries one node adds to imageNodes, one per check that succeeds
Pushes(i) ==
    LET node == nodes[i]
        nodeName == ToLowerCase(Get(node.name))
    IN (IF HasImageFill(node) THEN <<i>> ELSE <<>>)
       \o (IF TypeIn(node, {"RECTANGLE", "ELLIPSE"})
              /\ \E w \in ShapeKeywords : Includes(nodeName, w)
           THEN <<i>> ELSE <<>>)
       \o (IF TypeIn(node, {"INSTANCE", "COMPONENT"})
              /\ \E w \in InstanceKeywords : Includes(nodeName, w)
           THEN <<i>> ELSE <<>>)

FindThrew == [threw |-> TRUE, ids |-> <<>>]
Found(ids) == [threw |-> FALSE, ids |-> ids]

RECURSIVE findImageNodes(_, _)
RECURSIVE FindInChildren(_, _)

\* node.children.forEach(child => findImageNodes(child, imageNodes))
FindInChildren(kids, acc) ==
    IF kids = <<>> THEN Found(acc)
    ELSE LET r == findImageNodes(Head(kids), acc) IN
         IF r.threw THEN FindThrew ELSE FindInChildren(Tail(kids), r.ids)

findImageNodes(i, collected) ==
    IF nodes[i].isNull THEN Found(collected)
    ELSE IF NameCheckThrows(nodes[i]) THEN FindThrew
    ELSE FindInChildren(Children(i), collected \o Pushes(i))

----------------------------------------------------------------------------
(* Specification SpecFind: the candidate search applied to every tree of   *)
(* at most MaxNodes nodes in which one node is drawn from ProbeNodes (all  *)
(* combinations of type, name and fills) and the others from FillerNodes.  *)

ProbeTypes == {"FRAME", "RECTANGLE", "ELLIPSE", "INSTANCE", "COMPONENT"}

ProbeNames ==
    { None,
      Some(<<"C", "a", "r", "d">>),
      Some(<<"H", "e", "r", "o", SP, "I", "m", "a", "g", "e">>),
      Some(<<"i", "m", "g">>),
      Some(<<"P", "h", "o", "t", "o">>),
      Some(<<"p", "i", "c", "t", "u", "r", "e", "1">>),
      Some(<<"m", "y", "I", "c", "o", "n">>),
      Some(<<"L", "O", "G", "O">>) }

ProbeFills ==
    { None, Some(<<SolidFill(10, 0, 0, None)>>), Some(<<SolidFill(0, 0, 0, None), ImageFill>>) }

ProbeNodes ==
    { [BareNode EXCEPT !.type = Some(t), !.name = n, !.fills = f] :
          t \in ProbeTypes, n \in ProbeNames, f \in ProbeFills }

FillerNodes ==
    { [BareNode EXCEPT !.type = Some("FRAME"), !.name = Some(<<"A">>)],
      [BareNode EXCEPT !.type = Some("RECTANGLE"), !.name = Some(<<"i", "c", "o", "n">>),
                       !.fills = Some(<<ImageFill>>)],
      NoNode }

FindInit ==
    /\ variant = "sonet"
    /\ \E n \in 1..MaxNodes :
          /\ parent \in Shapes(n)
          /\ \E probe \in 1..n, p \in ProbeNodes, fillers \in [1..n -> FillerNodes] :
                nodes = [i \in 1..n |-> IF i = probe THEN p ELSE fillers[i]]
    /\ WellFormedTree(parent, nodes)
    /\ treePc = "ready"
    /\ summary = NoResult
    /\ found = Found(<<>>)
    /\ CleanIdle
    /\ RunIdle

\* const imageNodes = findImageNodes(nodes)
FindImages ==
    /\ treePc = "ready"
    /\ found' = findImageNodes(1, <<>>)
    /\ treePc' = "done"
    /\ UNCHANGED <<variant, parent, nodes, summary>>
    /\ UNCHANGED cleanVars
    /\ UNCHANGED runVars

FindNext == FindImages

SpecFind == FindInit /\ [][FindNext]_vars

----------------------------------------------------------------------------
(* Claims about the candidate search                                       *)

AllNamed == \A i \in NodeIds : ~nodes[i].isNull => Has(nodes[i].name)

Selected(i) == \E k \in 1..Len(found.ids) : found.ids[k] = i

NameHolds(node, words) ==
    Has(node.name) /\ \E w \in words : Includes(ToLowerCase(Get(node.name)), w)

\* C7 as stated: a node is selected if and only if it has an image fill, or it is
\* a RECTANGLE, ELLIPSE, INSTANCE or COMPONENT whose name holds one of the six
\* keywords (checked on trees in which every node has a name)
C7_SameKeywordsForAllTypes ==
    (treePc = "done" /\ AllNamed) =>
        /\ ~found.threw
        /\ \A i \in NodeIds :
               ~nodes[i].isNull =>
                   (Selected(i) <=>
                       \/ HasImageFill(nodes[i])
                       \/ /\ TypeIn(nodes[i], {"RECTANGLE", "ELLIPSE", "INSTANCE", "COMPONENT"})
                          /\ NameHolds(nodes[i], ShapeKeywords))

\* C7 amended: the six keywords apply to RECTANGLE and ELLIPSE nodes; an
\* INSTANCE or COMPONENT is selected by name only for image, icon and logo
C7_KeywordsPerType ==
    (treePc = "done" /\ AllNamed) =>
        /\ ~found.threw
        /\ \A i \in NodeIds :
               ~nodes[i].isNull =>
                   (Selected(i) <=>
                       \/ HasImageFill(nodes[i])
                       \/ /\ TypeIn(nodes[i], {"RECTANGLE", "ELLIPSE"})
                          /\ NameHolds(nodes[i], {KwImage, KwImg, KwPhoto, KwPicture, KwIcon, KwLogo})
                       \/ /\ TypeIn(nodes[i], {"INSTANCE", "COMPONENT"})
                          /\ NameHolds(nodes[i], {KwImage, KwIcon, KwLogo}))

\* the search has selected a nested ELLIPSE by an upper-case keyword and passed
\* over an INSTANCE that has no image fill
C7_Witness ==
    /\ treePc = "done" /\ AllNamed /\ ~found.threw
    /\ \E i \in NodeIds :
          /\ Depth(i) = 2 /\ TypeIn(nodes[i], {"ELLIPSE"})
          /\ ~HasImageFill(nodes[i]) /\ nodes[i].name = Some(<<"L", "O", "G", "O">>)
          /\ Selected(i)
    /\ \E i \in NodeIds : ~Selected(i) /\ ~nodes[i].isNull

----------------------------------------------------------------------------
(* Names and paths                                                         *)
(* A path is a sequence of segments, a segment is a text.                  *)

IsAlnum(c) == IsLetter(c) \/ c \in Digits

KeepName(name) == name

\* name.replace(/[^a-zA-Z0-9]/g, '').replace(/^[^a-zA-Z]/, 'Component')
sanitizeComponentName(name) ==
    LET kept == SelectSeq(name, IsAlnum) IN
    IF kept # <<>> /\ ~IsLetter(Head(kept))
    THEN <<"C", "o", "m", "p", "o", "n", "e", "n", "t">> \o Tail(kept)
    ELSE kept

RECURSIVE Normalize(_, _)
\* path.normalize: empty and "." segments vanish, ".." removes the segment before it
Normalize(segs, acc) ==
    IF segs = <<>> THEN acc
    ELSE IF Head(segs) = <<>> \/ Head(segs) = <<".">>
         THEN Normalize(Tail(segs), acc)
    ELSE IF Head(segs) = <<".", ".">>
         THEN Normalize(Tail(segs), IF acc = <<>> THEN acc ELSE SubSeq(acc, 1, Len(acc) - 1))
    ELSE Normalize(Tail(segs), Append(acc, Head(segs)))

\* path.join(base, t)
PathJoin(base, t) == Normalize(Split(t, "/"), base)

\* the directories mkdir(p, { recursive: true }) makes sure exist
Ancestors(p) == { SubSeq(p, 1, k) : k \in 1..Len(p) }

\* validatedTargetFolder: the target root the user accepted
TargetRoot == << <<"o", "u", "t">> >>

\* the name run() builds compPath from
CompName(v, name) == IF v = "legacy" THEN name ELSE sanitizeComponentName(Trim(name))

RawName(v, name) == name

\* the name generateWithAI builds basePath from
GenName(v, name) == IF v = "legacy" THEN name ELSE sanitizeComponentName(name)

CompPath(v, name) == PathJoin(TargetRoot, CompName(v, name))
BasePath(v, name) == PathJoin(TargetRoot, GenName(v, name))
AssetsDir(v, name) == PathJoin(CompPath(v, name), <<"a", "s", "s", "e", "t", "s">>)
TypesDir(v, name) == PathJoin(BasePath(v, name), <<"t", "y", "p", "e", "s">>)
HooksDir(v, name) == PathJoin(BasePath(v, name), <<"h", "o", "o", "k", "s">>)

ScssPath(v, name) == PathJoin(CompPath(v, name), CompName(v, name) \o <<".module.scss">>)

ArtifactPath(v, name, kind) ==
    LET n == GenName(v, name) IN
    CASE kind = "types" ->
            PathJoin(TypesDir(v, name),
                     IF v = "legacy" THEN n \o <<".types.ts">> ELSE <<"types.ts">>)
      [] kind = "hooks" -> PathJoin(HooksDir(v, name), <<"u", "s", "e">> \o n \o <<".ts">>)
      [] kind = "comp" ->
            PathJoin(BasePath(v, name), IF v = "legacy" THEN <<"index.tsx">> ELSE n \o <<".tsx">>)
      [] OTHER -> PathJoin(BasePath(v, name), CompName(v, name) \o <<".test.tsx">>)

\* path.dirname(p)
Dirname(p) == SubSeq(p, 1, Len(p) - 1)

\* the directories on disk after safeWriteFile made sure the one of p exists
AfterSafeMkdir(v, ds, p) == IF v = "legacy" THEN ds ELSE ds \cup Ancestors(Dirname(p))

OnlyFile(fs, p, c) == { [path |-> p, content |-> c] }

\* fs.writeFile: the file at path p now holds c
WriteFile(fs, p, c) == { f \in fs : f.path # p } \cup { [path |-> p, content |-> c] }

FileContent(kind, by, form) == [kind |-> kind, by |-> by, form |-> form]

----------------------------------------------------------------------------
(* Provider Adapter (runPrompt)                                            *)

SystemMsg == [role |-> "system", content |-> "systemPrompts"]
UserMsg(kind) == [role |-> "user", content |-> kind]

\* the canonical message sequence generateWithAI hands to runPrompt
Prompt(kind) == <<SystemMsg, UserMsg(kind)>>

NotSystem(msg) == msg.role # "system"

\* the request runPrompt sends for a prompt
Request(v, m, prompt) ==
    IF m = "OpenAI"
    THEN [backend |-> "OpenAI", messages |-> prompt, system |-> None]
    ELSE IF v = "legacy"
         THEN [backend |-> "Claude", messages |-> prompt, system |-> None]
         ELSE [backend |-> "Claude", messages |-> SelectSeq(prompt, NotSystem),
               system |-> Some("systemPrompts")]

\* the request of the test-file call of part_002, which bypasses runPrompt
TestRequest(m) ==
    IF m = "OpenAI"
    THEN [backend |-> "OpenAI", messages |-> <<SystemMsg, UserMsg("test")>>, system |-> None]
    ELSE [backend |-> "Claude", messages |-> <<UserMsg("test")>>,
          system |-> Some("systemPrompts")]

RawCause(cause) == <<cause>>

BareMessage(msg) == msg

\* throw new Error(`AI generation failed: ${error.message}`)
AIGenerationFailed(cause) == <<"AI generation failed: ", cause>>

\* throw new Error(`Code generation failed: ${error.message}`)
CodeGenerationFailed(msg) == <<"Code generation failed: ">> \o msg

\* throw new Error(`Failed to write file ${filePath}: ${error.message}`)
FailedToWrite(cause) == <<"Failed to write file ", "<filePath>", ": ", cause>>

----------------------------------------------------------------------------
(* Specification SpecRun: one run of the script, from the first prompt to  *)
(* the end of the process.  Every external operation (prompt, network      *)
(* call, file system call) is one step whose outcome the environment       *)
(* chooses.                                                                *)

MaxRunNodes == 2

Models == {"OpenAI", "Claude"}
Credentials == {"OpenAI", "Claude", "Figma"}
\* every key present, the provider keys missing, the Figma key missing, none present
KeySets == { Credentials, {"Figma"}, {"OpenAI", "Claude"}, {} }

NetCauses == {"ECONNRESET"}
ProviderCauses == {"429 rate limit", "ECONNRESET"}
FsCauses == {"EACCES"}

ComponentNames == { <<"C", "a", "r", "d">>, <<SP, "B", "2", SP>> }

\* Date.now() rendered in a template literal
Timestamps == { <<"1", "7">>, <<"1", "8">> }

RunNodes ==
    { [BareNode EXCEPT !.type = Some("FRAME"), !.name = Some(<<"C", "a", "r", "d">>)],
      [BareNode EXCEPT !.type = Some("RECTANGLE"),
                       !.name = Some(<<"P", "h", "o", "t", "o", SP, "1">>),
                       !.fills = Some(<<ImageFill>>)],
      [BareNode EXCEPT !.type = Some("INSTANCE"),
                       !.name = Some(<<".", ".", "/", ".", ".", "/", "P", "h", "o", "t", "o", "-", "1">>),
                       !.fills = Some(<<ImageFill>>)],
      [BareNode EXCEPT !.type = Some("FRAME"), !.fills = Some(<<ImageFill>>)],
      [BareNode EXCEPT !.type = Some("RECTANGLE")] }

OldFile(v, name) ==
    [path |-> ArtifactPath(v, name, "comp"), content |-> FileContent("comp", 0, "old")]

NetCall(op, backend, kind, ids, messages, system, result) ==
    [op |-> op, backend |-> backend, kind |-> kind, ids |-> ids,
     messages |-> messages, system |-> system, result |-> result]

\* the tree matters to the harvester only: the other variants run on one node
RunInit ==
    /\ variant \in Variants
    /\ \E n \in 1..MaxRunNodes :
          /\ variant # "sonet" => n = 1
          /\ parent \in Shapes(n)
          /\ nodes \in [1..n -> RunNodes]
    /\ treePc = "idle" /\ summary = NoResult /\ found = Found(<<>>)
    /\ CleanIdle
    /\ pc = "selectModel" /\ model = "none"
    /\ keys \in KeySets
    /\ componentName \in ComponentNames
    /\ \E existed \in BOOLEAN :
          /\ dirs = IF existed THEN Ancestors(CompPath(variant, componentName)) ELSE {}
          /\ files = IF existed THEN {OldFile(variant, componentName)} ELSE {}
    /\ exitCode = None /\ errorMsg = <<>> /\ netLog = <<>>
    /\ harvested = "none" /\ imageNodes = <<>> /\ entries = <<>> /\ hIdx = 0
    /\ curName = <<>> /\ attempts = <<>> /\ imageImports = <<>> /\ contents = <<>>

harvestVars == <<harvested, imageNodes, entries, hIdx, curName, attempts, imageImports>>

RunFrame ==
    /\ UNCHANGED treeVars
    /\ UNCHANGED cleanVars
    /\ UNCHANGED <<keys, componentName>>

\* process.exit(code), or the process ending on an error that reached the top
Exit(code, msg) == pc' = "exited" /\ exitCode' = Some(code) /\ errorMsg' = msg

Go(next) == pc' = next /\ UNCHANGED <<exitCode, errorMsg>>

\* the error message that ends the run when an error is thrown inside run()
Thrown(v, handled, raw) == IF v = "legacy" THEN raw ELSE handled

\* 1. Select Model, getApiKey
SelectModel ==
    /\ pc = "selectModel"
    /\ \E m \in Models :
          /\ model' = m
          /\ IF m \in keys THEN Go("fetch")
             ELSE Exit(1, <<"Missing ", m, " API Key">>)
    /\ UNCHANGED <<netLog, dirs, files, contents>>
    /\ UNCHANGED harvestVars
    /\ RunFrame

\* a fetched document without document, without document.children, or with an
\* empty document.children
Malformed == {"noDocument", "noChildren", "emptyChildren"}

FetchFailures == {"403", "404", "ECONNRESET"}

\* what the request of fetchFigmaFile comes back with
FetchOutcomes == {"ok"} \cup Malformed \cup FetchFailures

AnyStructure(doc) == TRUE

\* fileData.document?.children?.[0]; figma-to-react.js dereferences
\* fileData.document.children[0] and the main frame without a test
HasMainFrame(doc) == doc \notin Malformed

\* the TypeError figma-to-react.js ends with on a malformed document
DereferenceError(doc) ==
    CASE doc = "noDocument" ->
            <<"Cannot read properties of undefined (reading 'children')">>
      [] doc = "noChildren" -> <<"Cannot read properties of undefined (reading '0')">>
      [] OTHER -> <<"Cannot read properties of undefined (reading 'name')">>

\* the message of the error fetchFigmaFile and the structure check end with
FetchError(v, out) ==
    CASE out \in Malformed ->
            Thrown(v, <<"Invalid Figma file structure">>, DereferenceError(out))
      [] out = "403" ->
            Thrown(v, <<"Invalid Figma API key or insufficient permissions">>,
                      <<"Request failed with status code 403">>)
      [] out = "404" ->
            Thrown(v, <<"Figma file not found">>, <<"Request failed with status code 404">>)
      [] OTHER -> Thrown(v, <<"Failed to fetch Figma file: ", out>>, <<out>>)

\* 2. fetchFigmaFile, the structure check and extractNodeSummary
FetchFile ==
    /\ pc = "fetch"
    /\ \E out \in FetchOutcomes :
          /\ "Figma" \notin keys => out \in {"403", "ECONNRESET"}
          /\ netLog' = Append(netLog,
                 NetCall("fetchFile", "Figma", "file", <<>>, <<>>, None, out))
          /\ IF out \notin FetchFailures /\ HasMainFrame(out)
             THEN Go("mkTarget")
             ELSE Exit(1, FetchError(variant, out))
    /\ UNCHANGED <<model, dirs, files, contents>>
    /\ UNCHANGED harvestVars
    /\ RunFrame

\* 3. mkdir(validatedTargetFolder, { recursive: true })
MakeTarget ==
    /\ pc = "mkTarget"
    /\ \/ dirs' = dirs \cup Ancestors(TargetRoot) /\ Go("confirm")
       \/ \E cause \in FsCauses : Exit(1, RawCause(cause)) /\ UNCHANGED dirs
    /\ UNCHANGED <<model, netLog, files, contents>>
    /\ UNCHANGED harvestVars
    /\ RunFrame

AfterConfirm(v) == IF v = "sonet" THEN "harvest" ELSE "scss"

AlwaysThere(ds, p) == TRUE

\* fs.existsSync(p)
existsSync(ds, p) == p \in ds

\* 5. if (fs.existsSync(compPath)): the overwrite confirmation is asked or skipped
ConfirmOverwrite ==
    /\ pc = "confirm"
    /\ IF existsSync(dirs, CompPath(variant, componentName))
       THEN Go("confirm.ask")
       ELSE Go(AfterConfirm(variant))
    /\ UNCHANGED <<model, netLog, dirs, files, contents>>
    /\ UNCHANGED harvestVars
    /\ RunFrame

\* the answer to the confirmation: if (!overwrite) process.exit(0)
AnswerOverwrite ==
    /\ pc = "confirm.ask"
    /\ \E overwrite \in BOOLEAN :
          IF overwrite THEN Go(AfterConfirm(variant)) ELSE Exit(0, <<>>)
    /\ UNCHANGED <<model, netLog, dirs, files, contents>>
    /\ UNCHANGED harvestVars
    /\ RunFrame

ScssForm(v) == IF v = "legacy" THEN "raw" ELSE "clean"

\* extractStyles, mkdir(compPath) and the write of the stylesheet
WriteScss ==
    /\ pc = "scss"
    /\ \/ /\ dirs' = dirs \cup Ancestors(CompPath(variant, componentName))
          /\ files' = WriteFile(files, ScssPath(variant, componentName),
                                FileContent("scss", 0, ScssForm(variant)))
          /\ Go("deps")
       \/ \E cause \in FsCauses :
             /\ Exit(1, RawCause(cause))
             /\ UNCHANGED <<dirs, files>>
       \/ \E cause \in FsCauses :
             /\ dirs' = dirs \cup Ancestors(CompPath(variant, componentName))
             /\ Exit(1, Thrown(variant, FailedToWrite(cause), RawCause(cause)))
             /\ UNCHANGED files
    /\ UNCHANGED <<model, netLog, contents>>
    /\ UNCHANGED harvestVars
    /\ RunFrame

----------------------------------------------------------------------------
(* Image Harvester (extractAndSaveImages), a part of the run of "sonet"    *)

EveryId(ids, acc) == acc \o ids

RECURSIVE Dedup(_, _)
\* the keys of the images object of the response: each requested id once
Dedup(ids, acc) ==
    IF ids = <<>> THEN acc
    ELSE IF \E k \in 1..Len(acc) : acc[k] = Head(ids)
         THEN Dedup(Tail(ids), acc)
         ELSE Dedup(Tail(ids), Append(acc, Head(ids)))

\* const imageNodes = findImageNodes(nodes); if (imageNodes.length === 0) return []
HarvestFind ==
    /\ pc = "harvest"
    /\ LET r == findImageNodes(1, <<>>) IN
       IF r.threw
       THEN /\ harvested' = "threw"
            /\ Exit(1, <<"Cannot read properties of undefined (reading 'toLowerCase')">>)
            /\ UNCHANGED imageNodes
       ELSE IF r.ids = <<>>
       THEN harvested' = "returned" /\ Go("deps") /\ UNCHANGED imageNodes
       ELSE harvested' = "running" /\ Go("h.urls") /\ imageNodes' = r.ids
    /\ UNCHANGED <<entries, hIdx, curName, attempts, imageImports>>
    /\ UNCHANGED <<model, netLog, dirs, files, contents>>
    /\ RunFrame

\* the batched URL request; the outer catch returns [] when it fails
ResolveUrls ==
    /\ pc = "h.urls"
    /\ \/ \E cause \in NetCauses :
             /\ netLog' = Append(netLog,
                    NetCall("imageUrls", "Figma", "images", imageNodes, <<>>, None, cause))
             /\ harvested' = "returned"
             /\ Go("deps")
             /\ UNCHANGED entries
       \/ \E withUrl \in SUBSET { imageNodes[k] : k \in 1..Len(imageNodes) } :
             /\ netLog' = Append(netLog,
                    NetCall("imageUrls", "Figma", "images", imageNodes, <<>>, None, "ok"))
             /\ entries' = LET ids == Dedup(imageNodes, <<>>) IN
                           [k \in 1..Len(ids) |->
                               [nodeId |-> ids[k], hasUrl |-> ids[k] \in withUrl]]
             /\ Go("h.mkdir")
             /\ UNCHANGED harvested
    /\ UNCHANGED <<imageNodes, hIdx, curName, attempts, imageImports>>
    /\ UNCHANGED <<model, dirs, files, contents>>
    /\ RunFrame

\* mkdir(assetsDir, { recursive: true }); the outer catch returns [] when it fails
MakeAssetsDir ==
    /\ pc = "h.mkdir"
    /\ \/ /\ dirs' = dirs \cup Ancestors(AssetsDir(variant, componentName))
          /\ hIdx' = 1
          /\ Go("h.loop")
          /\ UNCHANGED harvested
       \/ /\ harvested' = "returned"
          /\ Go("deps")
          /\ UNCHANGED <<dirs, hIdx>>
    /\ UNCHANGED <<imageNodes, entries, curName, attempts, imageImports>>
    /\ UNCHANGED <<model, netLog, files, contents>>
    /\ RunFrame

Attempt(id, outcome) == [nodeId |-> id, outcome |-> outcome]

\* if (!imageUrl) continue
SkipEntry ==
    /\ pc = "h.loop"
    /\ hIdx <= Len(entries)
    /\ ~entries[hIdx].hasUrl
    /\ attempts' = Append(attempts, Attempt(entries[hIdx].nodeId, "noUrl"))
    /\ hIdx' = hIdx + 1
    /\ Go("h.loop")
    /\ UNCHANGED <<harvested, imageNodes, entries, curName, imageImports>>
    /\ UNCHANGED <<model, netLog, dirs, files, contents>>
    /\ RunFrame

\* node.name || `image_${Date.now()}`
ImageName(node, ts) ==
    sanitizeComponentName(IF TruthyText(node.name) THEN Get(node.name)
                          ELSE <<"i", "m", "a", "g", "e", "_">> \o ts)

\* the download request of one entry; the inner catch skips the entry when it fails
Download ==
    /\ pc = "h.loop"
    /\ hIdx <= Len(entries)
    /\ entries[hIdx].hasUrl
    /\ LET id == entries[hIdx].nodeId IN
       \/ \E cause \in NetCauses :
             /\ netLog' = Append(netLog,
                    NetCall("download", "cdn", "image", <<id>>, <<>>, None, cause))
             /\ attempts' = Append(attempts, Attempt(id, "requestFailed"))
             /\ hIdx' = hIdx + 1
             /\ Go("h.loop")
             /\ UNCHANGED curName
       \/ \E ts \in Timestamps :
             /\ netLog' = Append(netLog,
                    NetCall("download", "cdn", "image", <<id>>, <<>>, None, "ok"))
             /\ curName' = ImageName(nodes[id], ts)
             /\ Go("h.stream")
             /\ UNCHANGED <<attempts, hIdx>>
    /\ UNCHANGED <<harvested, imageNodes, entries, imageImports>>
    /\ UNCHANGED <<model, dirs, files, contents>>
    /\ RunFrame

FileName(name) == name \o <<".png">>

ImagePath(v, comp, name) == PathJoin(AssetsDir(v, comp), FileName(name))

ImageImport(id, name) ==
    [ importName |-> name,
      fileName |-> FileName(name),
      relativePath |-> <<"./assets/">> \o FileName(name),
      nodeId |-> id,
      nodeName |-> IF TruthyText(nodes[id].name) THEN Get(nodes[id].name)
                   ELSE <<"U", "n", "n", "a", "m", "e", "d">> ]

\* the write stream ends with 'finish' or 'error': the entry is saved or skipped
SaveImage ==
    /\ pc = "h.stream"
    /\ LET id == entries[hIdx].nodeId IN
       \/ /\ files' = WriteFile(files, ImagePath(variant, componentName, curName),
                                FileContent("png", id, "whole"))
          /\ imageImports' = Append(imageImports, ImageImport(id, curName))
          /\ attempts' = Append(attempts, Attempt(id, "saved"))
       \/ /\ attempts' = Append(attempts, Attempt(id, "writeFailed"))
          /\ UNCHANGED <<files, imageImports>>
    /\ hIdx' = hIdx + 1
    /\ Go("h.loop")
    /\ UNCHANGED <<harvested, imageNodes, entries, curName>>
    /\ UNCHANGED <<model, netLog, dirs, contents>>
    /\ RunFrame

\* what the process does when the awaited promise can no longer settle
StreamFailureOutcomes == {"stalled", "drained", "crashed"}

\* the response stream fails or stalls after the headers: the write stream gets
\* neither 'finish' nor 'error', so the awaited promise never settles
StreamFails ==
    /\ pc = "h.stream"
    /\ LET id == entries[hIdx].nodeId IN
       /\ files' = WriteFile(files, ImagePath(variant, componentName, curName),
                             FileContent("png", id, "partial"))
       /\ attempts' = Append(attempts, Attempt(id, "streamFailed"))
    /\ harvested' = "aborted"
    /\ \E o \in StreamFailureOutcomes :
          CASE o = "stalled" -> Go("stalled")
            [] o = "drained" -> Exit(0, <<>>)
            [] OTHER -> Exit(1, RawCause("Unhandled 'error' event"))
    /\ UNCHANGED <<imageNodes, entries, hIdx, curName, imageImports>>
    /\ UNCHANGED <<model, netLog, dirs, contents>>
    /\ RunFrame

\* console.log and return imageImports
ReturnImports ==
    /\ pc = "h.loop"
    /\ hIdx > Len(entries)
    /\ harvested' = "returned"
    /\ Go("deps")
    /\ UNCHANGED <<imageNodes, entries, hIdx, curName, attempts, imageImports>>
    /\ UNCHANGED <<model, netLog, dirs, files, contents>>
    /\ RunFrame

----------------------------------------------------------------------------
(* checkAndInstallDeps and generateWithAI                                  *)

\* 6. checkAndInstallDeps(frameworks): execCommand rejects with stderr, a string
CheckDeps ==
    /\ pc = "deps"
    /\ \/ Go("gen.mkdir")
       \/ Exit(1, RawCause("undefined"))
    /\ UNCHANGED <<model, netLog, dirs, files, contents>>
    /\ UNCHANGED harvestVars
    /\ RunFrame

\* the mkdir of types/ and hooks/, before the try of generateWithAI
GenMkdir ==
    /\ pc = "gen.mkdir"
    /\ \/ /\ dirs' = dirs \cup Ancestors(TypesDir(variant, componentName))
                          \cup Ancestors(HooksDir(variant, componentName))
          /\ Go("gen.types")
       \/ \E cause \in FsCauses : Exit(1, RawCause(cause)) /\ UNCHANGED dirs
    /\ UNCHANGED <<model, netLog, files, contents>>
    /\ UNCHANGED harvestVars
    /\ RunFrame

GenKind(p) ==
    CASE p \in {"gen.types", "gen.wTypes"} -> "types"
      [] p \in {"gen.hooks", "gen.wHooks"} -> "hooks"
      [] OTHER -> "comp"

CallThenWrite(v, p) ==
    CASE p = "gen.types" -> "gen.wTypes"
      [] p = "gen.wTypes" -> "gen.hooks"
      [] p = "gen.hooks" -> "gen.wHooks"
      [] p = "gen.wHooks" -> "gen.comp"
      [] p = "gen.comp" -> "gen.wComp"
      [] OTHER -> IF v = "scss" THEN "test.call" ELSE "finish"

WriteAsYouGo(v, p) ==
    CASE p = "gen.types" -> "gen.wTypes"
      [] p = "gen.wTypes" -> "gen.wHooks"
      [] p = "gen.wHooks" -> "gen.wComp"
      [] OTHER -> IF v = "scss" THEN "test.call" ELSE "finish"

AfterGen(v, p) ==
    CASE p = "gen.types" -> "gen.hooks"
      [] p = "gen.hooks" -> "gen.comp"
      [] p = "gen.comp" -> "gen.wTypes"
      [] p = "gen.wTypes" -> "gen.wHooks"
      [] p = "gen.wHooks" -> "gen.wComp"
      [] OTHER -> IF v = "scss" THEN "test.call" ELSE "finish"

\* await runPrompt([systemMsg, { role: "user", ... }])
RunPrompt ==
    /\ pc \in {"gen.types", "gen.hooks", "gen.comp"}
    /\ LET kind == GenKind(pc)
           req == Request(variant, model, Prompt(kind))
       IN \/ /\ netLog' = Append(netLog,
                    NetCall("provider", req.backend, kind, <<>>, req.messages, req.system, "ok"))
             /\ contents' = Append(contents, kind)
             /\ Go(AfterGen(variant, pc))
          \/ \E cause \in ProviderCauses :
                /\ netLog' = Append(netLog,
                       NetCall("provider", req.backend, kind, <<>>, req.messages, req.system,
                               cause))
                /\ Exit(1, Thrown(variant, CodeGenerationFailed(AIGenerationFailed(cause)),
                                  RawCause(cause)))
                /\ UNCHANGED contents
    /\ UNCHANGED <<model, dirs, files>>
    /\ UNCHANGED harvestVars
    /\ RunFrame

ArtifactForm(v) == IF v = "legacy" THEN "raw" ELSE "clean"

\* await safeWriteFile(path, content): mkdir of the directory, sanitizer, write
WriteArtifact ==
    /\ pc \in {"gen.wTypes", "gen.wHooks", "gen.wComp"}
    /\ LET kind == GenKind(pc)
           p == ArtifactPath(variant, componentName, kind)
       IN \/ /\ dirs' = AfterSafeMkdir(variant, dirs, p)
             /\ files' = WriteFile(files, p, FileContent(kind, 0, ArtifactForm(variant)))
             /\ Go(AfterGen(variant, pc))
          \/ \E cause \in FsCauses :
                /\ Exit(1, Thrown(variant, CodeGenerationFailed(FailedToWrite(cause)),
                                  RawCause(cause)))
                /\ UNCHANGED <<dirs, files>>
    /\ UNCHANGED <<model, netLog, contents>>
    /\ UNCHANGED harvestVars
    /\ RunFrame

\* part_002: the test-file call, issued by run() itself
TestCall ==
    /\ pc = "test.call"
    /\ LET req == TestRequest(model) IN
       \/ /\ netLog' = Append(netLog,
                 NetCall("provider", req.backend, "test", <<>>, req.messages, req.system, "ok"))
          /\ contents' = Append(contents, "test")
          /\ Go("test.write")
       \/ \E cause \in ProviderCauses :
             /\ netLog' = Append(netLog,
                    NetCall("provider", req.backend, "test", <<>>, req.messages, req.system,
                            cause))
             /\ Exit(1, RawCause(cause))
             /\ UNCHANGED contents
    /\ UNCHANGED <<model, dirs, files>>
    /\ UNCHANGED harvestVars
    /\ RunFrame

\* part_002: safeWriteFile of the test file
TestWrite ==
    /\ pc = "test.write"
    /\ \/ /\ dirs' = AfterSafeMkdir(variant, dirs, ArtifactPath(variant, componentName, "test"))
          /\ files' = WriteFile(files, ArtifactPath(variant, componentName, "test"),
                                FileContent("test", 0, "clean"))
          /\ Go("finish")
       \/ \E cause \in FsCauses : Exit(1, FailedToWrite(cause)) /\ UNCHANGED <<dirs, files>>
    /\ UNCHANGED <<model, netLog, contents>>
    /\ UNCHANGED harvestVars
    /\ RunFrame

\* run() returns and the process ends
Finish ==
    /\ pc = "finish"
    /\ Exit(0, <<>>)
    /\ UNCHANGED <<model, netLog, dirs, files, contents>>
    /\ UNCHANGED harvestVars
    /\ RunFrame

RunNext ==
    \/ SelectModel
    \/ FetchFile
    \/ MakeTarget
    \/ ConfirmOverwrite
    \/ AnswerOverwrite
    \/ WriteScss
    \/ HarvestFind
    \/ ResolveUrls
    \/ MakeAssetsDir
    \/ SkipEntry
    \/ Download
    \/ SaveImage
    \/ StreamFails
    \/ ReturnImports
    \/ CheckDeps
    \/ GenMkdir
    \/ RunPrompt
    \/ WriteArtifact
    \/ TestCall
    \/ TestWrite
    \/ Finish

SpecRun == RunInit /\ [][RunNext]_vars

----------------------------------------------------------------------------
(* Claims about the Provider Adapter                                       *)

ProviderCalls == { k \in 1..Len(netLog) : netLog[k].op = "provider" }

FailedProviderCalls == { k \in ProviderCalls : netLog[k].result # "ok" }

\* C5: every request sent to OpenAI carries the canonical sequence unchanged, with
\* the instruction as its inline system-role message; every request sent to Claude
\* carries no system-role message and has the instruction in its system field
C5_RequestShapedPerBackend ==
    \A k \in ProviderCalls :
        LET c == netLog[k] IN
        /\ c.backend = "OpenAI" =>
              /\ c.messages = <<SystemMsg, UserMsg(c.kind)>>
              /\ c.system = None
        /\ c.backend = "Claude" =>
              /\ \A j \in 1..Len(c.messages) : c.messages[j].role # "system"
              /\ c.messages = <<UserMsg(c.kind)>>
              /\ c.system = Some(SystemMsg.content)

InMessage(part) == \E j \in 1..Len(errorMsg) : errorMsg[j] = part

----------------------------------------------------------------------------
(* Claims about the Image Harvester                                        *)

\* a candidate as the specification defines it: an image fill, or one of the four
\* types with a keyword in the name
IsCandidate(i) ==
    \/ HasImageFill(nodes[i])
    \/ /\ TypeIn(nodes[i], {"RECTANGLE", "ELLIPSE", "INSTANCE", "COMPONENT"})
       /\ NameHolds(nodes[i], {KwImage, KwImg, KwPhoto, KwPicture, KwIcon, KwLogo})

HarvesterCalls == { k \in 1..Len(netLog) : netLog[k].op \in {"imageUrls", "download"} }

\* C8: once the harvester was called on a tree without candidate, it has returned
\* the empty list, issued no network call and created no assets directory
C8_NoCandidateNoEffect ==
    (variant = "sonet" /\ harvested # "none" /\ \A i \in NodeIds : ~IsCandidate(i)) =>
        /\ harvested = "returned"
        /\ imageImports = <<>>
        /\ HarvesterCalls = {}
        /\ AssetsDir(variant, componentName) \notin dirs

SavedAttempt(a) == a.outcome = "saved"

\* C9: once the harvester is over, it has returned a list that holds exactly one
\* ImageImport for each entry whose download and write completed, whatever
\* became of the other entries of the batch
C9_FailureIsolated ==
    (variant = "sonet" /\ harvested \in {"returned", "aborted"}) =>
        /\ harvested = "returned"
        /\ [k \in 1..Len(imageImports) |-> imageImports[k].nodeId]
               = [k \in 1..Len(SelectSeq(attempts, SavedAttempt)) |->
                      SelectSeq(attempts, SavedAttempt)[k].nodeId]

\* C10: the harvester never ends the run: once called it is running or has
\* returned, and when the run has ended the harvester had returned before
C10_HarvesterNeverAborts ==
    (variant = "sonet" /\ harvested # "none") =>
        /\ harvested \in {"running", "returned"}
        /\ pc \in {"exited", "stalled"} => harvested = "returned"

----------------------------------------------------------------------------
(* Specification SpecName: the naming step of the harvester (imageName)    *)
(* applied to a node with every display name of at most MaxNameLen         *)
(* characters, and to a node without name.                                 *)

MaxNameLen == 3

NameChars == {"a", "Z", "7", "-", SP}

NameInit ==
    /\ variant = "sonet" /\ parent = <<0>>
    /\ \E n \in {None} \cup { Some(t) : t \in SeqsUpTo(NameChars, MaxNameLen) } :
          nodes = <<[BareNode EXCEPT !.type = Some("FRAME"), !.name = n,
                                     !.fills = Some(<<ImageFill>>)]>>
    /\ treePc = "idle" /\ summary = NoResult /\ found = Found(<<>>)
    /\ CleanIdle
    /\ pc = "naming" /\ model = "OpenAI" /\ keys = {} /\ componentName = <<>>
    /\ exitCode = None /\ errorMsg = <<>> /\ netLog = <<>> /\ dirs = {} /\ files = {}
    /\ harvested = "running" /\ imageNodes = <<1>> /\ entries = <<>> /\ hIdx = 0
    /\ curName = <<>> /\ attempts = <<>> /\ imageImports = <<>> /\ contents = <<>>

\* const imageName = sanitizeComponentName(node.name || `image_${Date.now()}`)
NameImage ==
    /\ pc = "naming"
    /\ \E ts \in Timestamps : curName' = ImageName(nodes[1], ts)
    /\ pc' = "named"
    /\ UNCHANGED <<model, exitCode, errorMsg, netLog, dirs, files, contents>>
    /\ UNCHANGED <<harvested, imageNodes, entries, hIdx, attempts, imageImports>>
    /\ RunFrame

NameNext == NameImage

SpecName == NameInit /\ [][NameNext]_vars

\* C11: the generated name is never empty, starts with a letter and holds only
\* letters and digits, whatever the display name of the node
C11_NameIsIdentifierSafe ==
    pc = "named" =>
        /\ curName # <<>>
        /\ IsLetter(curName[1])
        /\ \A k \in 1..Len(curName) : IsLetter(curName[k]) \/ curName[k] \in Digits

----------------------------------------------------------------------------
(* Claims about missing fields in the Tree Summarizer                      *)

\* the node line the specification describes for node i
PlaceholderLine(i) ==
    Repeat(<<SP, SP>>, Depth(i)) \o <<"-", SP>>
        \o (IF Has(nodes[i].name) THEN Get(nodes[i].name) ELSE <<"Unnamed">>)
        \o <<SP, "(">>
        \o <<IF Has(nodes[i].type) THEN Get(nodes[i].type) ELSE "Unknown">>
        \o <<")", NL>>

\* C12: the summarizer returns a text for every tree, also one with a null child;
\* the text holds, for every node, its line with Unnamed for an absent name and
\* Unknown for an absent type, and never holds the text undefined
C12_MissingFieldsDegrade ==
    treePc = "done" =>
        /\ ~summary.threw
        /\ \A i \in NodeIds : ~nodes[i].isNull => Includes(summary.text, PlaceholderLine(i))
        /\ \A k \in 1..Len(summary.text) : summary.text[k] # "undefined"

----------------------------------------------------------------------------
(* Style Extractor, CSS shape (extractStyles of part_002 and of            *)
(* figma-to-react.js)                                                      *)

\* `${className ? `.${className}` : ""} {\n`
CssOpen(className) ==
    (IF className # <<>> THEN <<".">> \o className ELSE <<>>) \o <<SP, "{", NL>>

\* `  prop: value;\n`
CssDecl(prop, value) == <<SP, SP, prop, SP>> \o value \o <<";", NL>>

CssClose == <<"}", NL, NL>>

Px(m) == <<ToString(Get(m)), "px">>

\* String.prototype.toLowerCase on the values of textAlignHorizontal
LowerAlign(w) ==
    CASE w = "LEFT" -> "left"
      [] w = "RIGHT" -> "right"
      [] w = "CENTER" -> "center"
      [] w = "JUSTIFIED" -> "justified"
      [] OTHER -> w

KeepChar(c) == c

\* one character through replace(/[^a-z0-9]/g, "-")
DashChar(c) ==
    IF (\E k \in 1..26 : LowerCase[k] = c) \/ c \in Digits THEN c ELSE "-"

\* name.toLowerCase().replace(/[^a-z0-9]/g, "-")
ClassOf(name) == [k \in 1..Len(name) |-> DashChar(LowerOf(name[k]))]

\* the rules extractStyles of part_002 writes for the node itself
OwnRules(node, className) ==
    (IF Has(node.fills) /\ Len(Get(node.fills)) > 0
        /\ Get(node.fills)[1].type = "SOLID" /\ Has(Get(node.fills)[1].color)
     THEN CssOpen(className)
          \o CssDecl("background-color:", Rgba(Get(node.fills)[1]))
     ELSE <<>>)
    \o
    (IF Has(node.style)
     THEN LET st == Get(node.style) IN
          CssOpen(className)
          \o (IF TruthyWord(st.fontFamily)
              THEN CssDecl("font-family:", <<"\"", Get(st.fontFamily), "\"">>) ELSE <<>>)
          \o (IF TruthyNum(st.fontSize) THEN CssDecl("font-size:", Px(st.fontSize)) ELSE <<>>)
          \o (IF TruthyNum(st.fontWeight)
              THEN CssDecl("font-weight:", <<ToString(Get(st.fontWeight))>>) ELSE <<>>)
          \o (IF TruthyNum(st.lineHeightPx)
              THEN CssDecl("line-height:", Px(st.lineHeightPx)) ELSE <<>>)
          \o (IF TruthyNum(st.letterSpacing)
              THEN CssDecl("letter-spacing:", Px(st.letterSpacing)) ELSE <<>>)
          \o (IF TruthyWord(st.textAlignHorizontal)
              THEN CssDecl("text-align:", <<LowerAlign(Get(st.textAlignHorizontal))>>)
              ELSE <<>>)
          \o CssClose
     ELSE <<>>)
    \o
    (IF Has(node.absoluteBoundingBox)
     THEN LET box == Get(node.absoluteBoundingBox) IN
          CssOpen(className)
          \o CssDecl("width:", <<ShowNum(box.width), "px">>)
          \o CssDecl("height:", <<ShowNum(box.height), "px">>)
          \o CssClose
     ELSE <<>>)
    \o
    (IF TruthyNum(node.cornerRadius)
     THEN CssOpen(className) \o CssDecl("border-radius:", Px(node.cornerRadius)) \o CssClose
     ELSE <<>>)

\* the rule extractStyles of figma-to-react.js writes for the node itself
LegacyRules(node, className) ==
    IF Has(node.style)
    THEN LET st == Get(node.style) IN
         CssOpen(className)
         \o (IF TruthyWord(st.backgroundColor)
             THEN CssDecl("background-color:", <<Get(st.backgroundColor)>>) ELSE <<>>)
         \o (IF TruthyWord(st.fill) THEN CssDecl("color:", <<Get(st.fill)>>) ELSE <<>>)
         \o (IF TruthyWord(st.fontFamily)
             THEN CssDecl("font-family:", <<Get(st.fontFamily)>>) ELSE <<>>)
         \o (IF TruthyNum(st.fontSize) THEN CssDecl("font-size:", Px(st.fontSize)) ELSE <<>>)
         \o (IF TruthyNum(st.fontWeight)
             THEN CssDecl("font-weight:", <<ToString(Get(st.fontWeight))>>) ELSE <<>>)
         \o (IF TruthyNum(st.lineHeight)
             THEN CssDecl("line-height:", <<ToString(Get(st.lineHeight))>>) ELSE <<>>)
         \o (IF TruthyNum(st.letterSpacing)
             THEN CssDecl("letter-spacing:", Px(st.letterSpacing)) ELSE <<>>)
         \o (IF TruthyWord(st.textAlign)
             THEN CssDecl("text-align:", <<Get(st.textAlign)>>) ELSE <<>>)
         \o (IF TruthyNum(st.width) THEN CssDecl("width:", Px(st.width)) ELSE <<>>)
         \o (IF TruthyNum(st.height) THEN CssDecl("height:", Px(st.height)) ELSE <<>>)
         \o (IF TruthyNum(st.padding) THEN CssDecl("padding:", Px(st.padding)) ELSE <<>>)
         \o (IF TruthyNum(st.borderRadius)
             THEN CssDecl("border-radius:", Px(st.borderRadius)) ELSE <<>>)
         \o CssClose
    ELSE <<>>

\* const childClass = (child.name || 'element').toLowerCase().replace(...) in
\* part_002, child.name.toLowerCase().replace(...) in figma-to-react.js
ChildClassThrows(v, child) == child.isNull \/ (v = "legacy" /\ ~Has(child.name))

ChildClass(v, child) ==
    ClassOf(IF v = "legacy" \/ TruthyText(child.name) THEN Get(child.name)
            ELSE <<"e", "l", "e", "m", "e", "n", "t">>)

RECURSIVE extractStyles(_, _, _)
RECURSIVE StylesOfChildren(_, _, _)

\* node.children.forEach(child => styles += extractStyles(child, childClass)),
\* started from the text acc; an exception of a child ends the walk
StylesOfChildren(v, kids, acc) ==
    IF kids = <<>> THEN Returned(acc)
    ELSE IF ChildClassThrows(v, nodes[Head(kids)]) THEN Threw
    ELSE LET r == extractStyles(v, Head(kids), ChildClass(v, nodes[Head(kids)])) IN
         IF r.threw THEN Threw ELSE StylesOfChildren(v, Tail(kids), acc \o r.text)

extractStyles(v, i, className) ==
    IF nodes[i].isNull
    THEN (IF v = "legacy" THEN Threw ELSE Returned(<<>>))
    ELSE StylesOfChildren(v, Children(i),
             IF v = "legacy" THEN LegacyRules(nodes[i], className)
             ELSE OwnRules(nodes[i], className))

----------------------------------------------------------------------------
(* Specification SpecStyle: the Style Extractor of each script applied to  *)
(* every tree of at most MaxNodes nodes in which one node is drawn from    *)
(* StyleProbes and the others from StyleFillers.  In figma-to-react-       *)
(* sonet.js the extractor runs inside extractNodeSummary, on one node at a *)
(* time, so that script is run on the probe alone.                         *)

Channels == {0, 5, 10}

ProbeBase == [BareNode EXCEPT !.name = Some(<<"P">>), !.type = Some("FRAME")]

FillProbes ==
    { [ProbeBase EXCEPT !.fills = Some(<<SolidFill(r, g, b, a)>>)] :
          r \in Channels, g \in Channels, b \in Channels,
          a \in {None, Some(0), Some(5), Some(10)} }
    \cup
    { [ProbeBase EXCEPT !.fills = f] :
          f \in { Some(<<>>), Some(<<ImageFill, SolidFill(10, 0, 0, Some(5))>>),
                  Some(<<[type |-> "SOLID", color |-> None, opacity |-> Some(5)]>>) } }

TextStyleProbes ==
    { [ProbeBase EXCEPT !.style = Some([NoStyle EXCEPT
            !.fontFamily = ff, !.fontSize = fs, !.fontWeight = fw,
            !.textAlignHorizontal = ta, !.lineHeightPx = lh, !.letterSpacing = ls])] :
          ff \in {None, Some(""), Some("Inter")}, fs \in {None, Some(0), Some(12)},
          fw \in {None, Some(700)}, ta \in {None, Some("CENTER")},
          lh \in {None, Some(14)}, ls \in {None, Some(2)} }

LegacyStyleProbes ==
    { [ProbeBase EXCEPT !.style = Some([NoStyle EXCEPT
            !.backgroundColor = bg, !.fill = fl, !.lineHeight = lh, !.textAlign = ta,
            !.width = w, !.height = w, !.padding = pd, !.borderRadius = pd])] :
          bg \in {None, Some("#fff")}, fl \in {None, Some("#000")},
          lh \in {None, Some(2)}, ta \in {None, Some("left")},
          w \in {None, Some(0), Some(10)}, pd \in {None, Some(4)} }

Box(x, y, w, h) == [x |-> x, y |-> y, width |-> w, height |-> h]

BoxProbes ==
    { [ProbeBase EXCEPT !.absoluteBoundingBox = Some(Box(x, y, w, h))] :
          x \in {None, Some(0)}, y \in {None, Some(3)},
          w \in {None, Some(10)}, h \in {None, Some(20)} }

PaddingProbes ==
    { [ProbeBase EXCEPT !.paddingLeft = pl, !.paddingTop = pt, !.paddingRight = pr,
                        !.paddingBottom = pb, !.layoutMode = lm] :
          pl \in {None, Some(0), Some(8)}, pt \in {None, Some(0), Some(8)},
          pr \in {None, Some(8)}, pb \in {None, Some(8)},
          lm \in {None, Some("HORIZONTAL")} }

LayoutProbes ==
    { [ProbeBase EXCEPT !.layoutMode = Some("VERTICAL"), !.itemSpacing = sp,
                        !.primaryAxisAlignItems = pa, !.counterAxisAlignItems = ca] :
          sp \in {None, Some(0), Some(4)}, pa \in {None, Some("CENTER")},
          ca \in {None, Some("MIN")} }

OtherProbes ==
    { [ProbeBase EXCEPT !.cornerRadius = cr, !.characters = ch, !.constraints = co] :
          cr \in {None, Some(0), Some(4)}, ch \in {None, Some(<<>>), Some(<<"h", "i">>)},
          co \in {None, Some("{\"vertical\":\"TOP\"}")} }

NamedProbes ==
    { [ProbeBase EXCEPT !.name = n, !.cornerRadius = Some(4),
                        !.style = Some([NoStyle EXCEPT !.fontSize = Some(12)])] :
          n \in { None, Some(<<>>), Some(<<"C", "a", "r", "d", SP, SP, "T", "1">>),
                  Some(<<"a", "_", "b", "!">>) } }

StyleProbes ==
    FillProbes \cup TextStyleProbes \cup LegacyStyleProbes \cup BoxProbes
        \cup PaddingProbes \cup LayoutProbes \cup OtherProbes \cup NamedProbes

StyleFillers ==
    { [BareNode EXCEPT !.name = Some(<<"H", "e", "r", "o", SP, "B", "o", "x">>),
                       !.type = Some("FRAME"), !.cornerRadius = Some(2),
                       !.style = Some([NoStyle EXCEPT !.fontSize = Some(10),
                                                      !.width = Some(5)])],
      NoNode }

\* sanitizedName.toLowerCase(): the class name given for the main frame
RootClass == <<"c", "a", "r", "d">>

StyleInit ==
    /\ variant \in Variants
    /\ \E n \in 1..MaxNodes :
          /\ variant = "sonet" => n = 1
          /\ parent \in Shapes(n)
          /\ \E probe \in 1..n, p \in StyleProbes, fillers \in [1..n -> StyleFillers] :
                nodes = [i \in 1..n |-> IF i = probe THEN p ELSE fillers[i]]
    /\ WellFormedTree(parent, nodes)
    /\ treePc = "ready"
    /\ summary = NoResult
    /\ found = Found(<<>>)
    /\ CleanIdle
    /\ RunIdle

\* const structureText = extractNodeSummary(mainFrame) in figma-to-react-sonet.js,
\* const scss = extractStyles(mainFrame, sanitizedName.toLowerCase()) in the others
ExtractStyle ==
    /\ treePc = "ready"
    /\ summary' = IF variant = "sonet" THEN extractNodeSummary(variant, 1, 0)
                  ELSE extractStyles(variant, 1, RootClass)
    /\ treePc' = "done"
    /\ UNCHANGED <<variant, parent, nodes, found>>
    /\ UNCHANGED cleanVars
    /\ UNCHANGED runVars

StyleNext == ExtractStyle

SpecStyle == StyleInit /\ [][StyleNext]_vars

----------------------------------------------------------------------------
(* Claims about the Style Extractor *)

\* the first fill of a node when it is a solid fill holding a colour and an opacity
HasSolidFirstFill(node) ==
    /\ ~node.isNull
    /\ Has(node.fills)
    /\ Len(Get(node.fills)) > 0
    /\ Get(node.fills)[1].type = "SOLID"
    /\ Has(Get(node.fills)[1].color)
    /\ Has(Get(node.fills)[1].opacity)

\* rgba(R, G, B, a) with R, G, B the channels times 255, rounded, and alpha a
ExpectedRgba(fill) ==
    LET c == Get(fill.color) IN
    <<"rgba(", ToString((c.r * 255 + 5) \div 10), ",", SP,
               ToString((c.g * 255 + 5) \div 10), ",", SP,
               ToString((c.b * 255 + 5) \div 10), ",", SP>>
        \o (IF Get(fill.opacity) % 10 = 0
            THEN <<ToString(Get(fill.opacity) \div 10)>>
            ELSE <<"0", ".", ToString(Get(fill.opacity))>>)
        \o <<")">>

\* C13: a node whose first fill is solid with colour (r, g, b) and opacity a is
\* described with the colour rgba(R, G, B, a), R, G, B being the channels times
\* 255 rounded to an integer of 0..255 and the alpha being a itself, for every
\* a of [0, 1], a = 0 included.
C13_SolidFillRendersRgba ==
    (treePc = "done" /\ variant \in {"sonet", "scss"} /\ ~summary.threw) =>
        \A i \in NodeIds :
            HasSolidFirstFill(nodes[i]) =>
                Includes(summary.text, ExpectedRgba(Get(nodes[i].fills)[1]))

\* the text holds the label only if some node holds the property
OnlyIfPresent(label, Present(_)) ==
    Includes(summary.text, label) => \E i \in NodeIds : ~nodes[i].isNull /\ Present(nodes[i])

StyleHas(node, f) == Has(node.style) /\ Has(Get(node.style)[f])

BoxHas(node, f) == Has(node.absoluteBoundingBox) /\ Has(Get(node.absoluteBoundingBox)[f])

AllPaddings(node) ==
    Has(node.paddingTop) /\ Has(node.paddingRight) /\ Has(node.paddingBottom)
        /\ Has(node.paddingLeft)

\* C14: the Style Extractor writes a line for a property only when the node
\* holds it: an absent field gives no line, no default value (0, 1) stands in
\* for an absent field, the text undefined never appears, no error is raised.
C14_AbsentFieldsOmitted ==
    (treePc = "done" /\ variant \in {"sonet", "scss"}
        /\ \A i \in NodeIds : ~nodes[i].isNull) =>
        /\ ~summary.threw
        /\ \A k \in 1..Len(summary.text) : summary.text[k] # "undefined"
        /\ OnlyIfPresent(<<"TEXT:">>, LAMBDA n : Has(n.characters))
        /\ OnlyIfPresent(<<"Background:">>, LAMBDA n : HasSolidFirstFill(n))
        /\ OnlyIfPresent(<<"background-color:">>, LAMBDA n : HasSolidFirstFill(n))
        /\ OnlyIfPresent(<<"Font:">>, LAMBDA n : StyleHas(n, "fontFamily"))
        /\ OnlyIfPresent(<<"font-family:">>, LAMBDA n : StyleHas(n, "fontFamily"))
        /\ OnlyIfPresent(<<"Size:">>, LAMBDA n : StyleHas(n, "fontSize"))
        /\ OnlyIfPresent(<<"font-size:">>, LAMBDA n : StyleHas(n, "fontSize"))
        /\ OnlyIfPresent(<<"Weight:">>, LAMBDA n : StyleHas(n, "fontWeight"))
        /\ OnlyIfPresent(<<"font-weight:">>, LAMBDA n : StyleHas(n, "fontWeight"))
        /\ OnlyIfPresent(<<"Align:">>, LAMBDA n : StyleHas(n, "textAlignHorizontal"))
        /\ OnlyIfPresent(<<"text-align:">>, LAMBDA n : StyleHas(n, "textAlignHorizontal"))
        /\ OnlyIfPresent(<<"line-height:">>, LAMBDA n : StyleHas(n, "lineHeightPx"))
        /\ OnlyIfPresent(<<"letter-spacing:">>, LAMBDA n : StyleHas(n, "letterSpacing"))
        /\ OnlyIfPresent(<<"Position:">>, LAMBDA n : BoxHas(n, "x") /\ BoxHas(n, "y"))
        /\ OnlyIfPresent(<<"Dimensions:">>, LAMBDA n : BoxHas(n, "width") /\ BoxHas(n, "height"))
        /\ OnlyIfPresent(<<"width:">>, LAMBDA n : BoxHas(n, "width"))
        /\ OnlyIfPresent(<<"height:">>, LAMBDA n : BoxHas(n, "height"))
        /\ OnlyIfPresent(<<"Constraints:">>, LAMBDA n : Has(n.constraints))
        /\ OnlyIfPresent(<<"Padding:">>, LAMBDA n : AllPaddings(n))
        /\ OnlyIfPresent(<<"Radius:">>, LAMBDA n : Has(n.cornerRadius))
        /\ OnlyIfPresent(<<"border-radius:">>, LAMBDA n : Has(n.cornerRadius))
        /\ OnlyIfPresent(<<"Mode:">>, LAMBDA n : Has(n.layoutMode))
        /\ OnlyIfPresent(<<"Spacing:">>, LAMBDA n : Has(n.itemSpacing))
        /\ OnlyIfPresent(<<"Main", SP, "Axis:">>, LAMBDA n : Has(n.primaryAxisAlignItems))
        /\ OnlyIfPresent(<<"Cross", SP, "Axis:">>, LAMBDA n : Has(n.counterAxisAlignItems))

\* the class a display name gives on its own: lower-cased, every character
\* other than a-z and 0-9 replaced by the separator "-"
OwnClass(name) ==
    [k \in 1..Len(name) |->
        LET c == LowerOf(name[k]) IN
        IF c \in {LowerCase[j] : j \in 1..26} \cup Digits THEN c ELSE "-"]

\* the line that opens the rule of a class
SelectorLine(class) == <<".">> \o class \o <<SP, "{">>

\* the lines of the style sheet that open a rule
SelectorLines ==
    LET lines == Split(summary.text, NL) IN
    { lines[k] : k \in { j \in 1..Len(lines) : lines[j] # <<>> /\ lines[j][Len(lines[j])] = "{" } }

\* every node below the root is a node with a display name
ChildrenNamed == \A i \in NodeIds : i # 1 => (~nodes[i].isNull /\ TruthyText(nodes[i].name))

\* C15: in the CSS-emitting Style Extractor the class of every child comes from
\* the child's own display name only (lower-cased, each non-alphanumeric
\* character replaced by the separator) and is never composed with the class
\* of its parent, at every depth of the tree.
C15_ChildClassFromOwnName ==
    (treePc = "done" /\ variant \in {"scss", "legacy"} /\ ChildrenNamed) =>
        /\ ~summary.threw
        /\ SelectorLines \subseteq
               {SelectorLine(RootClass)}
                   \cup {SelectorLine(OwnClass(Get(nodes[i].name))) : i \in NodeIds \ {1}}
        /\ \A i \in NodeIds \ {1} :
               Has(nodes[i].style) =>
                   SelectorLine(OwnClass(Get(nodes[i].name))) \in SelectorLines

\* a grandchild named "Card  T1" below a child named "Hero Box": its rule is
\* opened by .card--t1
C15_Witness ==
    /\ treePc = "done"
    /\ variant \in {"scss", "legacy"}
    /\ ChildrenNamed
    /\ Len(nodes) = 3
    /\ parent = <<0, 1, 2>>
    /\ nodes[2].name = Some(<<"H", "e", "r", "o", SP, "B", "o", "x">>)
    /\ nodes[3].name = Some(<<"C", "a", "r", "d", SP, SP, "T", "1">>)
    /\ Includes(summary.text, <<".", "c", "a", "r", "d", "-", "-", "t", "1", SP, "{">>)

----------------------------------------------------------------------------
(* Claims about the order of the external operations of a run *)

CallsOf(op) == { k \in 1..Len(netLog) : netLog[k].op = op }

\* the kinds of the provider calls, in the order they were issued
ProviderKinds ==
    LET IsProvider(c) == c.op = "provider"
        calls == SelectSeq(netLog, IsProvider)
    IN [k \in 1..Len(calls) |-> calls[k].kind]

\* the downloads whose outcome the harvester has recorded
SettledDownloads ==
    LET Settled(a) == a.outcome \in {"requestFailed", "saved", "writeFailed", "streamFailed"}
    IN Len(SelectSeq(attempts, Settled))

\* the artifacts this run wrote
WrittenArtifacts ==
    { f \in files : f.content.kind \in {"types", "hooks", "comp", "test"}
                    /\ f.content.form # "old" }

\* C16: the external operations of a run happen one after the other in a fixed
\* order: the fetch of the design file first, the harvester (its downloads one
\* at a time) over before the first provider call, the provider calls in the
\* order types, hooks, component, test, each issued after the one before has
\* returned, and every artifact written after its provider call returned, with
\* its text sanitized.
C16_OperationsInFixedOrder ==
    /\ CallsOf("fetchFile") \subseteq {1}
    /\ netLog # <<>> => netLog[1].op = "fetchFile"
    /\ \A h \in HarvesterCalls, q \in CallsOf("provider") : h < q
    /\ \A u \in CallsOf("imageUrls"), d \in CallsOf("download") : u < d
    /\ Cardinality(CallsOf("download")) = SettledDownloads + (IF pc = "h.stream" THEN 1 ELSE 0)
    /\ CallsOf("provider") # {} => harvested \in {"none", "returned"}
    /\ ProviderKinds = SubSeq(<<"types", "hooks", "comp", "test">>, 1, Len(ProviderKinds))
    /\ \A q \in CallsOf("provider") :
           (\E r \in CallsOf("provider") : q < r) => netLog[q].result = "ok"
    /\ \A f \in WrittenArtifacts :
           /\ \E q \in CallsOf("provider") :
                 netLog[q].kind = f.content.kind /\ netLog[q].result = "ok"
           /\ variant # "legacy" => f.content.form = "clean"

\* a run of figma-to-react-sonet.js that downloaded an image, made the three
\* provider calls and wrote the three artifacts
C16_Witness ==
    /\ variant = "sonet"
    /\ pc = "exited"
    /\ exitCode = Some(0)
    /\ \E d \in CallsOf("download") : netLog[d].result = "ok"
    /\ ProviderKinds = <<"types", "hooks", "comp">>
    /\ Cardinality(WrittenArtifacts) = 3

\* C17: no external call is retried: the fetch of the design file, the URL
\* resolution, the download of each candidate and each provider call (types,
\* hooks, component, test) are attempted at most once in a run, also when the
\* attempt failed.
C17_NoCallRetried ==
    /\ Cardinality(CallsOf("fetchFile")) <= 1
    /\ Cardinality(CallsOf("imageUrls")) <= 1
    /\ \A d, e \in CallsOf("download") : netLog[d].ids = netLog[e].ids => d = e
    /\ \A q, r \in CallsOf("provider") : netLog[q].kind = netLog[r].kind => q = r
    /\ \A k \in 1..Len(netLog) :
           netLog[k].result # "ok" =>
               \A j \in (k + 1)..Len(netLog) :
                   <<netLog[j].op, netLog[j].kind, netLog[j].ids>>
                       # <<netLog[k].op, netLog[k].kind, netLog[k].ids>>

\* a run in which a download failed and, later, a provider call failed
C17_Witness ==
    /\ pc = "exited"
    /\ \E d \in CallsOf("download") : netLog[d].result # "ok"
    /\ \E q \in CallsOf("provider") : netLog[q].result # "ok"

----------------------------------------------------------------------------
(* Claims about the ways a run ends *)

\* the run wrote every artifact
Succeeded ==
    { f.content.kind : f \in WrittenArtifacts }
        = {"types", "hooks", "comp"} \cup (IF variant = "scss" THEN {"test"} ELSE {})

\* the user declined the overwrite: no error was reported and nothing was
\* harvested, generated or written
Declined ==
    /\ errorMsg = <<>>
    /\ files = {OldFile(variant, componentName)}
    /\ contents = <<>>
    /\ harvested = "none"

\* C18: every run terminates, with exit status 0 when it succeeded or the user
\* declined the overwrite and with exit status 1 on every unrecoverable error;
\* no error path ends with status 0.
C18_ExitStatusTellsOutcome ==
    /\ pc # "stalled"
    /\ pc = "exited" =>
          /\ exitCode \in {Some(0), Some(1)}
          /\ exitCode = Some(0) <=> (Succeeded \/ Declined)

\* the credentials the run needs and does not have, once the provider is chosen
MissingCredentials == { c \in {"Figma", model} : c \notin keys }

\* C19: when a required credential is absent (the key of the design-file API or
\* the key of the chosen provider) the run fails at startup, before any network
\* call, with a fatal error whose message names the missing credential.
C19_MissingCredentialFailsAtStartup ==
    (pc # "selectModel" /\ MissingCredentials # {}) =>
        /\ pc = "exited"
        /\ exitCode = Some(1)
        /\ netLog = <<>>
        /\ \E c \in MissingCredentials : \E k \in 1..Len(errorMsg) : errorMsg[k] = c

\* C20: when the fetched document lacks the expected structure (no document,
\* no top-level list, an empty list) the run ends with a fatal error and exit
\* status 1, before any provider call and before any directory or file is made.
C20_MalformedDocumentIsFatal ==
    (netLog # <<>> /\ netLog[1].result \in {"noDocument", "noChildren", "emptyChildren"}) =>
        /\ pc = "exited"
        /\ exitCode = Some(1)
        /\ errorMsg # <<>>
        /\ Len(netLog) = 1
        /\ dirs \in {{}, Ancestors(CompPath(variant, componentName))}
        /\ files \subseteq {OldFile(variant, componentName)}
        /\ dirs = {} <=> files = {}
        /\ contents = <<>>

\* a run of figma-to-react-sonet.js that fetched a document with an empty
\* top-level list and ended with the structure error
C20_Witness ==
    /\ variant = "sonet"
    /\ netLog # <<>>
    /\ netLog[1].result = "emptyChildren"
    /\ pc = "exited"
    /\ errorMsg = <<"Invalid Figma file structure">>

----------------------------------------------------------------------------
(* Claims about the overwrite confirmation and the output directory *)

\* the directories and files at or below the directory p
DirsUnder(ds, p) == { d \in ds : Len(d) >= Len(p) /\ SubSeq(d, 1, Len(p)) = p }
FilesUnder(fs, p) == { f \in fs : Len(f.path) > Len(p) /\ SubSeq(f.path, 1, Len(p)) = p }

BeforeAnswer == {"selectModel", "fetch", "mkTarget", "confirm", "confirm.ask"}

\* C21: the overwrite confirmation is asked exactly when the directory of the
\* component exists; when the user declines, the run exits with status 0, no
\* directory or file below it is created, changed or deleted and no download or
\* provider call is made; nothing below it changes before the answer.
C21_OverwriteOnlyAfterConfirmation ==
    [][ LET comp == PathJoin(TargetRoot, CompName(variant, componentName)) IN
        /\ pc = "confirm" => (pc' = "confirm.ask" <=> comp \in dirs)
        /\ (pc = "confirm.ask" /\ pc' = "exited") =>
              /\ exitCode' = Some(0)
              /\ DirsUnder(dirs', comp) = DirsUnder(dirs, comp)
              /\ FilesUnder(files', comp) = FilesUnder(files, comp)
              /\ \A k \in 1..Len(netLog') : netLog'[k].op \notin {"download", "provider"}
        /\ pc \in BeforeAnswer =>
              /\ DirsUnder(dirs', comp) = DirsUnder(dirs, comp)
              /\ FilesUnder(files', comp) = FilesUnder(files, comp)
        /\ pc' = "confirm.ask" => pc = "confirm"
      ]_vars

\* the user declined to overwrite an existing component
C21_Witness ==
    /\ pc = "exited"
    /\ exitCode = Some(0)
    /\ Declined
    /\ PathJoin(TargetRoot, CompName(variant, componentName)) \in dirs
    /\ Len(netLog) = 1

\* the per-component directory: the target root, then the letters and digits
\* of the component name
ComponentDir == Append(TargetRoot, SelectSeq(componentName, IsAlnum))

\* C22: every file a run writes (types, hook, component, stylesheet, test,
\* downloaded images) lies inside <target root>/<sanitized component name>,
\* whatever the component name accepted and the display names of the nodes.
C22_WritesStayInComponentDir ==
    variant # "legacy" =>
        \A f \in files :
            /\ Len(f.path) > Len(ComponentDir)
            /\ SubSeq(f.path, 1, Len(ComponentDir)) = ComponentDir
            /\ \A k \in 1..Len(f.path) : f.path[k] \notin {<<>>, <<".">>, <<".", ".">>}

\* the image of the node named ../../Photo-1 was saved, below assets/
C22_Witness ==
    /\ variant = "sonet"
    /\ \E k \in 1..Len(imageImports) :
          /\ nodes[imageImports[k].nodeId].name
                 = Some(<<".", ".", "/", ".", ".", "/", "P", "h", "o", "t", "o", "-", "1">>)
          /\ \E f \in files :
                /\ f.content.kind = "png"
                /\ f.content.by = imageImports[k].nodeId
                /\ f.path = ComponentDir \o << <<"a", "s", "s", "e", "t", "s">>,
                                               <<"P", "h", "o", "t", "o", "1", ".png">> >>

----------------------------------------------------------------------------
(* Termination of the Image Harvester *)

\* the nodes of the runs followed up to the return of the harvester: a frame
\* and an image candidate
HarvestNodes ==
    { [BareNode EXCEPT !.type = Some("FRAME"), !.name = Some(<<"C", "a", "r", "d">>)],
      [BareNode EXCEPT !.type = Some("RECTANGLE"),
                       !.name = Some(<<"P", "h", "o", "t", "o", SP, "1">>),
                       !.fills = Some(<<ImageFill>>)] }

HarvestInit ==
    /\ RunInit
    /\ variant = "sonet"
    /\ keys = Credentials
    /\ componentName = <<"C", "a", "r", "d">>
    /\ dirs = {}
    /\ \A i \in NodeIds : nodes[i] \in HarvestNodes

\* the steps of run() of figma-to-react-sonet.js up to the return of
\* extractAndSaveImages
HarvestNext ==
    \/ SelectModel
    \/ FetchFile
    \/ MakeTarget
    \/ ConfirmOverwrite
    \/ HarvestFind
    \/ ResolveUrls
    \/ MakeAssetsDir
    \/ SkipEntry
    \/ Download
    \/ SaveImage
    \/ StreamFails
    \/ ReturnImports

\* a run that takes a step whenever it can: the event loop runs the
\* continuation of every promise that settled
SpecHarvest == HarvestInit /\ [][HarvestNext]_vars /\ WF_vars(HarvestNext)

\* C23: the Image Harvester always terminates: once a download has answered with
\* its headers, the download completes or is abandoned as a soft failure, and
\* extractAndSaveImages eventually returns.
C23_HarvesterReturns == (pc = "h.stream") ~> (harvested = "returned")

----------------------------------------------------------------------------
(* Claims about what a failed run leaves on disk *)

Paths(fs) == { f.path : f \in fs }

\* the steps that call a provider or write a stylesheet, an artifact or a test
GenerationSteps ==
    {"scss", "gen.mkdir", "gen.types", "gen.hooks", "gen.comp",
     "gen.wTypes", "gen.wHooks", "gen.wComp", "test.call", "test.write"}

\* C24: a fatal failure performs no cleanup: when a provider call or a file
\* write fails, every file written before stays on disk with the content it
\* had, and no step of a run deletes a file or a directory.
C24_NoCleanupOnFailure ==
    [][ /\ dirs \subseteq dirs'
        /\ Paths(files) \subseteq Paths(files')
        /\ (pc \in GenerationSteps /\ pc' = "exited" /\ exitCode' = Some(1)) =>
               files' = files
      ]_vars

\* a run that saved an image, wrote the types file and then failed
C24_Witness ==
    /\ pc = "exited"
    /\ exitCode = Some(1)
    /\ \E f \in files : f.content.kind = "png" /\ f.content.form = "whole"
    /\ \E f \in files : f.content.kind = "types" /\ f.content.form = "clean"
    /\ \A f \in files : f.content.kind = "comp" => f.content.form = "old"

----------------------------------------------------------------------------
(* Claims about the candidates and the files of the Image Harvester *)

\* C25: the list findImageNodes builds holds each node of the subtree at most
\* once, also a node that has an image fill and a keyword in its name, so the
\* URL-resolution request names each node once.
C25_EachCandidateOnce ==
    (treePc = "done" /\ ~found.threw) =>
        \A j, k \in 1..Len(found.ids) : found.ids[j] = found.ids[k] => j = k

\* C26: within one result of the harvester no two ImageImports have the same
\* file name or the same import name: the downloads of two distinct candidates
\* are never written to the same path, so no image overwrites another one.
C26_NoFileNameCollision ==
    variant = "sonet" =>
        \A j, k \in 1..Len(imageImports) :
            j # k =>
                /\ imageImports[j].fileName # imageImports[k].fileName
                /\ imageImports[j].importName # imageImports[k].importName

----------------------------------------------------------------------------
(* Claims about generateWithAI *)

CoreKinds == {"types", "hooks", "comp"}

\* the core artifacts this run wrote
CoreWritten == { f \in files : f.content.kind \in CoreKinds /\ f.content.form # "old" }

\* C27: in generateWithAI no core artifact (types, hook, component file) is
\* written before the three provider calls have returned: when one of the
\* three calls fails, the run creates or changes none of the three files.
C27_WritesAfterAllCalls ==
    /\ CoreWritten # {} =>
          \A kind \in CoreKinds :
              \E q \in 1..Len(netLog) :
                  /\ netLog[q].op = "provider"
                  /\ netLog[q].kind = kind
                  /\ netLog[q].result = "ok"
    /\ (\E q \in 1..Len(netLog) :
            /\ netLog[q].op = "provider"
            /\ netLog[q].kind \in CoreKinds
            /\ netLog[q].result # "ok") =>
          /\ CoreWritten = {}
          /\ \A f \in files : f.content.kind \in CoreKinds => f.content.form = "old"

\* the types call returned, the hook call failed, and the component that
\* existed before the run is still the old one
C27_Witness ==
    /\ pc = "exited"
    /\ exitCode = Some(1)
    /\ Len(netLog) >= 2
    /\ netLog[Len(netLog) - 1].kind = "types"
    /\ netLog[Len(netLog) - 1].result = "ok"
    /\ netLog[Len(netLog)].kind = "hooks"
    /\ netLog[Len(netLog)].result # "ok"
    /\ \E f \in files : f.content.kind = "comp" /\ f.content.form = "old"

----------------------------------------------------------------------------
(* Claims about the shape of the stylesheet *)

\* the braces of the stylesheet, in the order they are written
Braces ==
    LET IsBrace(c) == c \in {"{", "}"} IN SelectSeq(summary.text, IsBrace)

\* C28: the stylesheet of the CSS-emitting Style Extractor is well-formed for
\* every tree: every rule opened with { is closed with } before the next rule
\* opens, also for a node with a solid fill, so the braces are balanced.
C28_BracesBalanced ==
    (treePc = "done" /\ variant \in {"scss", "legacy"} /\ ~summary.threw) =>
        /\ Len(Braces) % 2 = 0
        /\ \A k \in 1..Len(Braces) : Braces[k] = (IF k % 2 = 1 THEN "{" ELSE "}")

----------------------------------------------------------------------------
(* Claims about the directory of the component *)

\* validate of the component-name question:
\* input.trim() is not empty and /^[A-Za-z][A-Za-z0-9]*$/.test(input.trim())
Accepted(name) ==
    LET t == Trim(name) IN
    /\ t # <<>>
    /\ IsLetter(t[1])
    /\ \A k \in 1..Len(t) : IsLetter(t[k]) \/ t[k] \in Digits

\* C29: the directory whose existence triggers the confirmation is the one the
\* run writes into: compPath of run, the directory of the images and of the
\* stylesheet and basePath of generateWithAI are equal, and
\* sanitizeComponentName leaves every accepted name unchanged.
C29_SameDirectoryNameUnchanged ==
    (variant # "legacy" /\ Accepted(componentName)) =>
        /\ BasePath(variant, componentName) = CompPath(variant, componentName)
        /\ Dirname(AssetsDir(variant, componentName)) = CompPath(variant, componentName)
        /\ Dirname(ScssPath(variant, componentName)) = CompPath(variant, componentName)
        /\ sanitizeComponentName(componentName) = componentName

\* C29, amended: the three directories are equal, every file of the run is
\* written below the directory that was checked, and sanitizeComponentName
\* changes an accepted name only by removing the white space around it.
C29_SameDirectory ==
    (variant # "legacy" /\ Accepted(componentName)) =>
        /\ BasePath(variant, componentName) = CompPath(variant, componentName)
        /\ Dirname(AssetsDir(variant, componentName)) = CompPath(variant, componentName)
        /\ Dirname(ScssPath(variant, componentName)) = CompPath(variant, componentName)
        /\ sanitizeComponentName(componentName) = Trim(componentName)
        /\ \A f \in files :
               SubSeq(f.path, 1, Len(TargetRoot) + 1)
                   = Append(TargetRoot, Trim(componentName))

\* a run that was given the name " B2 ", found the directory B2, was confirmed
\* and wrote the types, hook and component files
C29_Witness ==
    /\ variant = "sonet"
    /\ componentName = <<SP, "B", "2", SP>>
    /\ pc = "exited"
    /\ Succeeded
    /\ \E f \in files :
          f.path = Append(TargetRoot, <<"B", "2">>) \o << <<"B", "2", ".tsx">> >>
          /\ f.content.form = "clean"

----------------------------------------------------------------------------
(* Claim C30: cleaning a cleaned text (sonet 290-319, scss 151-180)        *)

\* C30: the Output Sanitizer is idempotent: applying cleanGeneratedCode to
\* its own result returns that result unchanged
C30_SanitizerIdempotent ==
    cleanPc = "done" => cleanGeneratedCode(cleaned) = cleaned

\* a response with a fence, prose before the code and prose after it, all of
\* which the first pass removed, and which the second pass leaves alone
C30_Witness ==
    /\ cleanPc = "done"
    /\ StartsWithFence(content)
    /\ CodeStart(StripFences(content)) > 0
    /\ CutTrailingProse(DiscardBeforeCode(StripFences(content))) # DiscardBeforeCode(StripFences(content))
    /\ cleaned # <<>>
    /\ cleaned # content
    /\ cleanGeneratedCode(cleaned) = cleaned

====
